---------------------------- MODULE Spec2Model ----------------------------
(***************************************************************************)
(* A model of assistant_gateway:                                           *)
(*   - ToolRegistry          (tools/registry.py)                           *)
(*   - ToolContext.with_input and the wrapped-tool callable that derives   *)
(*     a per-call context    (tools/base.py, agents/claude.py)             *)
(*   - RESTTool.run          (tools/rest_tool.py)                          *)
(*   - ClaudeBaseAgent       (agents/claude.py)                            *)
(*   - SimpleEchoAgent and the calculator tools (examples/)                *)
(* Each component has its own specification (SpecRegistry, SpecContext,    *)
(* SpecInvoke, SpecRest, SpecUrl, SpecWrap, SpecSchema, SpecAgent,         *)
(* SpecEcho, SpecCalc); the variables of the other components stay at      *)
(* their initial value in it.                                              *)
(***************************************************************************)
EXTENDS Integers, Sequences, FiniteSets, TLC

VARIABLES
    tools,        \* ToolRegistry._tools: sequence of <<name, tool>>, insertion order
    regCall,      \* the last call made on the registry and what it gave
    regPre,       \* ToolRegistry._tools as it was when that call started
    registered,   \* history: the tools that a register call has stored
    allViews,     \* the collections that all() has returned, oldest first
    heap,         \* the dict objects of the process, by address
    ctxs,         \* the ToolContext objects, by identity (0 is the base context)
    inv,          \* the wrapped-tool invocations in flight, one per call of _invoke
    lastRead,     \* the last read of context.input by a running tool
    restPc,       \* RESTTool.run: "idle", "awaiting" (in client.request) or "done"
    restTool,     \* the RESTTool whose run is executing
    restCtx,      \* the ToolContext handed to run
    restCalls,    \* the requests handed to the HTTP transport during this run
    restResp,     \* the response the transport gave, if any
    restOut,      \* what run returned or raised
    urlIn,        \* the base URL and the path of the URL being built by run
    urlOut,       \* the target URL built from them
    wrapPc,       \* the wrapped callable: "idle", "running" (in tool.run) or "done"
    wrapTool,     \* the tool the callable wraps
    wrapArgs,     \* the raw argument mapping the runtime gave
    wrapCtx,      \* the context handed to tool.run
    wrapResult,   \* the output of the ToolResult that tool.run returned
    wrapOut,      \* what the callable returned or raised
    schIn,        \* the input model's JSON schema given to _build_input_schema
    schOut,       \* the schema handed to the runtime, or the exception raised
    agPc,         \* ClaudeBaseAgent.run: "idle", "receiving" (in receive_response) or "done"
    agMessages,   \* the conversation given to run
    agPrompt,     \* the prompt sent with client.query
    agReceived,   \* history: the messages the runtime has yielded in this turn
    agResponse,   \* the local variable response of run
    agOut,        \* the AssistantResponse that run returned
    echoPc,       \* SimpleEchoAgent.run: "idle", "running" (in tool.run) or "done"
    echoMessages, \* the conversation given to run
    echoCall,     \* the tool call parsed from the last user message
    echoRuns,     \* history: the names of the tools whose run was awaited
    echoOut,      \* the AssistantResponse that run returned, or the exception it raised
    calcPc,       \* a calculator tool's run: "idle" or "done"
    calcTool,     \* the name of the calculator tool that ran
    calcInput,    \* context.input of that run: a set of <<key, integer>> pairs
    calcOut       \* what the run gave: a ToolResult or the exception raised

regVars == <<tools, regCall, regPre, registered, allViews>>

ctxVars == <<heap, ctxs, inv, lastRead>>

restVars == <<restPc, restTool, restCtx, restCalls, restResp, restOut>>

urlVars == <<urlIn, urlOut>>

wrapVars == <<wrapPc, wrapTool, wrapArgs, wrapCtx, wrapResult, wrapOut>>

schemaVars == <<schIn, schOut>>

agentVars == <<agPc, agMessages, agPrompt, agReceived, agResponse, agOut>>

echoVars == <<echoPc, echoMessages, echoCall, echoRuns, echoOut>>

calcVars == <<calcPc, calcTool, calcInput, calcOut>>

otherThanReg == <<ctxVars, restVars, urlVars, wrapVars, schemaVars, agentVars, echoVars, calcVars>>

otherThanCtx == <<regVars, restVars, urlVars, wrapVars, schemaVars, agentVars, echoVars, calcVars>>

otherThanRest == <<regVars, ctxVars, urlVars, wrapVars, schemaVars, agentVars, echoVars, calcVars>>

otherThanUrl == <<regVars, ctxVars, restVars, wrapVars, schemaVars, agentVars, echoVars, calcVars>>

otherThanWrap == <<regVars, ctxVars, restVars, urlVars, schemaVars, agentVars, echoVars, calcVars>>

otherThanSchema == <<regVars, ctxVars, restVars, urlVars, wrapVars, agentVars, echoVars, calcVars>>

otherThanAgent == <<regVars, ctxVars, restVars, urlVars, wrapVars, schemaVars, echoVars, calcVars>>

otherThanEcho == <<regVars, ctxVars, restVars, urlVars, wrapVars, schemaVars, agentVars, calcVars>>

otherThanCalc == <<regVars, ctxVars, restVars, urlVars, wrapVars, schemaVars, agentVars, echoVars>>

(***************************************************************************)
(* Python dicts are modelled as sets of <<key, value>> pairs with unique   *)
(* keys (or as sequences of such pairs where insertion order matters).     *)
(***************************************************************************)
Keys(d) == {kv[1] : kv \in d}

----------------------------------------------------------------------------
(***************************************************************************)
(* ToolRegistry                                                            *)
(***************************************************************************)

\* number of distinct Tool instances that carry the same name
MaxInst == 2

ToolNames == {"crud.rest", "todo.list", "todo.get"}

\* An object handed to register: a Tool instance (identity id, name from its
\* metadata) or an object that is not a Tool.
ToolObjs == [id : 1..MaxInst, name : ToolNames, isTool : {TRUE}]

NotATool == [id |-> 0, name |-> "crud.rest", isTool |-> FALSE]

\* what dict.get gives for a missing key
None == [id |-> 0, name |-> "", isTool |-> FALSE]

NoCall == [op |-> "none", name |-> "", arg |-> None, raised |-> "", result |-> None]

\* `name in self._tools`
Contains(reg, n) == \E i \in 1..Len(reg) : reg[i][1] = n

\* a lookup that gives the first tool stored, whatever the name
DictGetFirst(reg, n) == IF reg = <<>> THEN None ELSE reg[1][2]

\* self._tools.get(name)
DictGet(reg, n) ==
    IF Contains(reg, n)
    THEN reg[CHOOSE i \in 1..Len(reg) : reg[i][1] = n][2]
    ELSE None

\* register without its second assertion (a duplicate name is accepted)
DuplicateCheckDropped(reg, t) == TRUE

\* `assert tool.name not in self._tools`
DuplicateCheck(reg, t) == ~Contains(reg, t.name)

\* self._tools[tool.name] = tool : a dict store keeps the position of a key
\* that is already present and appends a new one
DictStore(reg, n, t) ==
    IF Contains(reg, n)
    THEN [i \in 1..Len(reg) |-> IF reg[i][1] = n THEN <<n, t>> ELSE reg[i]]
    ELSE Append(reg, <<n, t>>)

\* ToolRegistry.register(tool)
Register(t) ==
    /\ regPre' = tools
    /\ IF ~t.isTool
       THEN /\ regCall' = [op |-> "register", name |-> t.name, arg |-> t,
                           raised |-> "AssertionError", result |-> None]
            /\ UNCHANGED <<tools, registered>>
       ELSE IF ~DuplicateCheck(tools, t)
       THEN /\ regCall' = [op |-> "register", name |-> t.name, arg |-> t,
                           raised |-> "AssertionError", result |-> None]
            /\ UNCHANGED <<tools, registered>>
       ELSE /\ tools' = DictStore(tools, t.name, t)
            /\ registered' = registered \cup {t}
            /\ regCall' = [op |-> "register", name |-> t.name, arg |-> t,
                           raised |-> "", result |-> None]

\* ToolRegistry.get(name)
Get(n) ==
    /\ regPre' = tools
    /\ regCall' = [op |-> "get", name |-> n, arg |-> None,
                   raised |-> "", result |-> DictGet(tools, n)]
    /\ UNCHANGED <<tools, registered>>

\* number of collections taken with all() that callers keep at a time
MaxViews == 2

\* list(d.values()): the values of the dict, in insertion order
DictValues(reg) == [i \in 1..Len(reg) |-> reg[i][2]]

\* self._tools.values(): a view object on the dict of the registry.  It
\* holds no elements of its own; `returned` is a record of what it showed
\* when all() returned it.
ValuesView(reg) == [of |-> "self._tools", returned |-> DictValues(reg)]

\* iterating a collection that all() returned: a view shows the values that
\* its dict has now
ViewElements(view, reg) == DictValues(reg)

\* ToolRegistry.all()
All ==
    /\ Len(allViews) < MaxViews
    /\ regPre' = tools
    /\ allViews' = Append(allViews, ValuesView(tools))
    /\ regCall' = [op |-> "all", name |-> "", arg |-> None, raised |-> "", result |-> None]
    /\ UNCHANGED <<tools, registered>>

\* a caller drops the oldest collection it took
DropView ==
    /\ allViews # <<>>
    /\ allViews' = Tail(allViews)
    /\ UNCHANGED <<tools, regCall, regPre, registered>>

RegisterAny ==
    /\ \E t \in ToolObjs \cup {NotATool} : Register(t)
    /\ UNCHANGED <<allViews, otherThanReg>>

GetAny == (\E n \in ToolNames : Get(n)) /\ UNCHANGED <<allViews, otherThanReg>>

AllCall == All /\ UNCHANGED otherThanReg

AllDropped == DropView /\ UNCHANGED otherThanReg

InitRegistry ==
    /\ tools = <<>>
    /\ regCall = NoCall
    /\ regPre = <<>>
    /\ registered = {}
    /\ allViews = <<>>

NextRegistry == RegisterAny \/ GetAny \/ AllCall \/ AllDropped

----------------------------------------------------------------------------
(***************************************************************************)
(* ToolContext on a heap of dict objects.  A dict is a set of <<key, cell>>*)
(* pairs; a cell is a scalar [ref |-> FALSE, v |-> n] or a reference to a   *)
(* nested dict [ref |-> TRUE, v |-> address].                              *)
(***************************************************************************)

\* contexts derived from the base context by direct with_input calls
MaxDerived == 1

\* concurrent invocations of a wrapped tool within one turn
MaxInv == 2

MaxCtx == IF MaxDerived > MaxInv THEN MaxDerived ELSE MaxInv

CtxIds == 0..MaxCtx

\* 7 dicts exist at the start; a derived context needs at most 5 more
\* (its arguments, nested or not, its input and its two metadata dicts)
Addrs == 1..(7 + 5 * MaxCtx)

Scalar(n) == [ref |-> FALSE, v |-> n]

Ref(a) == [ref |-> TRUE, v |-> a]

FreeObj == [alloc |-> FALSE, d |-> {}]

Obj(d) == [alloc |-> TRUE, d |-> d]

NoCtx == [live |-> FALSE, input |-> 0, timeout_seconds |-> 0, metadata |-> 0]

FreeAddrs(h) == {a \in Addrs : ~h[a].alloc}

Rank(S, a) == Cardinality({b \in S : b < a}) + 1

\* the n-th free address, lowest first
NthFree(h, n) == CHOOSE f \in FreeAddrs(h) : Rank(FreeAddrs(h), f) = n

RefsOf(h, S) == {kv[2].v : kv \in UNION {{x \in h[a].d : x[2].ref} : a \in S}}

RECURSIVE ReachFrom(_, _)
ReachFrom(h, S) ==
    LET N == S \cup RefsOf(h, S)
    IN  IF N = S THEN S ELSE ReachFrom(h, N)

\* the value of the dict at address a, nested dicts by value
RECURSIVE Deep(_, _)
Deep(h, a) ==
    {<<kv[1], IF kv[2].ref
              THEN [ref |-> TRUE, v |-> 0, d |-> Deep(h, kv[2].v)]
              ELSE [ref |-> FALSE, v |-> kv[2].v, d |-> {}]>> : kv \in h[a].d}

\* d[k] = cell
DictPut(d, k, cell) == {kv \in d : kv[1] # k} \cup {<<k, cell>>}

\* copy.deepcopy of the dict at root: every dict reachable from it is copied
\* to a fresh address.  Gives <<heap, address of the copy>>.
DeepCopy(h, root) ==
    LET R == ReachFrom(h, {root})
        m == [a \in R |-> NthFree(h, Rank(R, a))]
        Remap(d) == {<<kv[1], IF kv[2].ref THEN Ref(m[kv[2].v]) ELSE kv[2]>> : kv \in d}
    IN  <<[x \in Addrs |->
              IF \E a \in R : m[a] = x
              THEN Obj(Remap(h[CHOOSE a \in R : m[a] = x].d))
              ELSE h[x]],
          m[root]>>

\* A new dict with the items of the dict at root (nested dicts shared).
\* Gives <<heap, address of the copy>>.
ShallowCopy(h, root) ==
    LET f == NthFree(h, 1)
    IN  <<[h EXCEPT ![f] = Obj(h[root].d)], f>>

\* the payload dict itself becomes the field (no new dict is built)
InputKeptByReference(h, payload) == <<h, payload>>

\* pydantic validation of a Dict[str, Any] field builds a new dict and keeps
\* the values it is given (ToolContext(**data), field `input`)
ValidateInputField(h, payload) == ShallowCopy(h, payload)

\* the receiver's metadata dict itself becomes the field (no copy)
MetadataKeptByReference(h, root) == <<h, root>>

\* deepcopy(self.model_dump())["metadata"], then validated by ToolContext(**data):
\* a structure that shares nothing with self.metadata
CopyMetadata(h, root) == DeepCopy(h, root)

\* ToolContext.with_input(self, payload).  Gives <<heap, the new context>>.
WithInput(h, self, payload) ==
    LET m == CopyMetadata(h, self.metadata)
        i == ValidateInputField(m[1], payload)
    IN  <<i[1], [live |-> TRUE, input |-> i[2],
                 timeout_seconds |-> self.timeout_seconds, metadata |-> m[2]]>>

\* the value of a context: its three fields, dicts by value
CtxValue(h, c) ==
    IF c.live
    THEN [live |-> TRUE, input |-> Deep(h, c.input),
          timeout_seconds |-> c.timeout_seconds, metadata |-> Deep(h, c.metadata)]
    ELSE [live |-> FALSE, input |-> {}, timeout_seconds |-> 0, metadata |-> {}]


\* The dicts that exist before any call:
\*   1: base.input {"a": 1, "n": -> 2}     2: {"b": 2}
\*   3: base.metadata {"base_url": 5, "default_headers": -> 4}   4: {"authorization": 3}
\*   5: a flat payload {"q": 7}
\*   6: a nested payload {"w": -> 7}       7: {"z": 8}
InitHeap ==
    [a \in Addrs |->
        CASE a = 1 -> Obj({<<"a", Scalar(1)>>, <<"n", Ref(2)>>})
          [] a = 2 -> Obj({<<"b", Scalar(2)>>})
          [] a = 3 -> Obj({<<"base_url", Scalar(5)>>, <<"default_headers", Ref(4)>>})
          [] a = 4 -> Obj({<<"authorization", Scalar(3)>>})
          [] a = 5 -> Obj({<<"q", Scalar(7)>>})
          [] a = 6 -> Obj({<<"w", Ref(7)>>})
          [] a = 7 -> Obj({<<"z", Scalar(8)>>})
          [] OTHER -> FreeObj]

BaseCtx == [live |-> TRUE, input |-> 1, timeout_seconds |-> 30, metadata |-> 3]

\* the value of the base context before any call
BaseValue == CtxValue(InitHeap, BaseCtx)

\* d[k] = 0 on a dict value
PutValue(d, k) == DictPut(d, k, [ref |-> FALSE, v |-> 0, d |-> {}])

\* d[k]["x"] = 0 on a dict value
PutNestedValue(d, k) ==
    {IF kv[1] = k THEN <<k, [ref |-> TRUE, v |-> 0, d |-> PutValue(kv[2].d, "x")]>> ELSE kv
        : kv \in d}

\* An invocation: where it stands, the arguments it was called with, and
\* the value the tool expects its context to have (what with_input gave it,
\* changed by the tool's own stores only).
IdleInv == [pc |-> "idle", args |-> {}, expect |-> CtxValue(InitHeap, NoCtx)]

NoRead == [ctx |-> 0, input |-> {}]

InitContext ==
    /\ heap = InitHeap
    /\ ctxs = [j \in CtxIds |-> IF j = 0 THEN BaseCtx ELSE NoCtx]
    /\ inv = [j \in 1..MaxInv |-> IdleInv]
    /\ lastRead = NoRead

\* the payloads a caller may hand to with_input: the receiver's own input
\* dict, or a dict of its own
Payloads == {ctxs[0].input, 5, 6}

\* d = c.with_input(p), c the base context
CallWithInput(j, p) ==
    /\ j \in 1..MaxDerived
    /\ ~ctxs[j].live
    /\ \A k \in 1..(j - 1) : ctxs[k].live
    /\ LET r == WithInput(heap, ctxs[0], p)
       IN  /\ heap' = r[1]
           /\ ctxs' = [ctxs EXCEPT ![j] = r[2]]

\* d.input[k] = 0
PutInput(j, k) ==
    /\ ctxs[j].live
    /\ heap' = [heap EXCEPT ![ctxs[j].input].d = DictPut(@, k, Scalar(0))]
    /\ UNCHANGED ctxs

\* d.input[k]["x"] = 0, for a key k that holds a nested dict
PutInputNested(j, k) ==
    /\ ctxs[j].live
    /\ \E kv \in heap[ctxs[j].input].d :
          /\ kv[1] = k
          /\ kv[2].ref
          /\ heap' = [heap EXCEPT ![kv[2].v].d = DictPut(@, "x", Scalar(0))]
    /\ UNCHANGED ctxs

\* d.metadata[k] = 0
PutMetadata(j, k) ==
    /\ ctxs[j].live
    /\ heap' = [heap EXCEPT ![ctxs[j].metadata].d = DictPut(@, k, Scalar(0))]
    /\ UNCHANGED ctxs

\* d.metadata[k]["x"] = 0, for a key k that holds a nested dict
PutMetadataNested(j, k) ==
    /\ ctxs[j].live
    /\ \E kv \in heap[ctxs[j].metadata].d :
          /\ kv[1] = k
          /\ kv[2].ref
          /\ heap' = [heap EXCEPT ![kv[2].v].d = DictPut(@, "x", Scalar(0))]
    /\ UNCHANGED ctxs

DerivedWithInput ==
    /\ \E j \in 1..MaxDerived, p \in Payloads : CallWithInput(j, p)
    /\ UNCHANGED <<inv, lastRead, otherThanCtx>>

DerivedPutInput ==
    /\ \E j \in 1..MaxDerived, k \in {"x", "n"} : PutInput(j, k)
    /\ UNCHANGED <<inv, lastRead, otherThanCtx>>

DerivedPutInputNested ==
    /\ \E j \in 1..MaxDerived, k \in {"n", "w"} : PutInputNested(j, k)
    /\ UNCHANGED <<inv, lastRead, otherThanCtx>>

DerivedPutMetadata ==
    /\ \E j \in 1..MaxDerived, k \in {"x", "default_headers"} : PutMetadata(j, k)
    /\ UNCHANGED <<inv, lastRead, otherThanCtx>>

DerivedPutMetadataNested ==
    /\ \E j \in 1..MaxDerived : PutMetadataNested(j, "default_headers")
    /\ UNCHANGED <<inv, lastRead, otherThanCtx>>

NextContext ==
    \/ DerivedWithInput
    \/ DerivedPutInput
    \/ DerivedPutInputNested
    \/ DerivedPutMetadata
    \/ DerivedPutMetadataNested

----------------------------------------------------------------------------
(***************************************************************************)
(* The callable that wraps a tool for the runtime (_invoke), as far as the *)
(* context goes: it derives a context from the shared predefined context   *)
(* and awaits tool.run on it.  Invocations of one turn interleave at the   *)
(* awaits inside tool.run; with_input itself has no await.                 *)
(***************************************************************************)

\* the argument mappings the runtime hands to _invoke (each call gets a
\* dict of its own)
ArgChoices == {{<<"x", Scalar(1)>>}, {<<"x", Scalar(2)>>}}

\* _invoke(args) up to the first await: the runtime has built args, and
\* tool_context_with_input = predefined_tool_context.with_input(args)
InvokeStart(i, a) ==
    /\ inv[i].pc = "idle"
    /\ LET f == NthFree(heap, 1)
           h1 == [heap EXCEPT ![f] = Obj(a)]
           r == WithInput(h1, ctxs[0], f)
       IN  /\ heap' = r[1]
           /\ ctxs' = [ctxs EXCEPT ![i] = r[2]]
           /\ inv' = [inv EXCEPT ![i] =
                        [pc |-> "running", args |-> a,
                         expect |-> [live |-> TRUE, input |-> Deep(h1, f),
                                     timeout_seconds |-> ctxs[0].timeout_seconds,
                                     metadata |-> Deep(heap, ctxs[0].metadata)]]]
    /\ UNCHANGED lastRead

\* tool.run reads context.input
ToolReadInput(i) ==
    /\ inv[i].pc = "running"
    /\ lastRead' = [ctx |-> i, input |-> Deep(heap, ctxs[i].input)]
    /\ UNCHANGED <<heap, ctxs, inv>>

\* tool.run stores into context.metadata
ToolPutMetadata(i, k) ==
    /\ inv[i].pc = "running"
    /\ PutMetadata(i, k)
    /\ inv' = [inv EXCEPT ![i].expect.metadata = PutValue(@, k)]
    /\ UNCHANGED lastRead

\* tool.run stores into a dict nested in context.metadata
ToolPutMetadataNested(i, k) ==
    /\ inv[i].pc = "running"
    /\ PutMetadataNested(i, k)
    /\ inv' = [inv EXCEPT ![i].expect.metadata = PutNestedValue(@, k)]
    /\ UNCHANGED lastRead

\* tool.run has returned and _invoke returns its envelope
InvokeReturn(i) ==
    /\ inv[i].pc = "running"
    /\ inv' = [inv EXCEPT ![i].pc = "done"]
    /\ UNCHANGED <<heap, ctxs, lastRead>>

InvStart ==
    /\ \E i \in 1..MaxInv, a \in ArgChoices : InvokeStart(i, a)
    /\ UNCHANGED otherThanCtx

InvRead == (\E i \in 1..MaxInv : ToolReadInput(i)) /\ UNCHANGED otherThanCtx

InvPutMetadata ==
    /\ \E i \in 1..MaxInv : ToolPutMetadata(i, "base_url")
    /\ UNCHANGED otherThanCtx

InvPutMetadataNested ==
    /\ \E i \in 1..MaxInv : ToolPutMetadataNested(i, "default_headers")
    /\ UNCHANGED otherThanCtx

InvReturn == (\E i \in 1..MaxInv : InvokeReturn(i)) /\ UNCHANGED otherThanCtx

NextInvoke ==
    \/ InvStart
    \/ InvRead
    \/ InvPutMetadata
    \/ InvPutMetadataNested
    \/ InvReturn

----------------------------------------------------------------------------
(***************************************************************************)
(* RESTTool.  Strings that are taken apart (paths, URLs, methods) are      *)
(* sequences of characters; names, header keys and values are plain        *)
(* strings.  A value that arrives in the invocation arguments or in the    *)
(* context metadata is a tagged record, so that a missing key, None, a     *)
(* string, an integer and a dict can stand in the same place.              *)
(***************************************************************************)

RawAbsent == [t |-> "absent", s |-> <<>>, d |-> {}]

RawNone == [t |-> "none", s |-> <<>>, d |-> {}]

RawInt == [t |-> "int", s |-> <<>>, d |-> {}]

RawStr(s) == [t |-> "str", s |-> s, d |-> {}]

RawDict(d) == [t |-> "dict", s |-> <<>>, d |-> d]

\* the value of a field that is None in a model instance
NoneValue == "<None>"

\* A pydantic model class: its name and its fields.
ModelClass(n, req, opt) == [name |-> n, required |-> req, optional |-> opt]

\* "no model was given" (None as a constructor argument)
NoModel == ModelClass("", {}, {})

\* class _DefaultRESTQueryAndPayloadModel(BaseModel): pass
DefaultModel == ModelClass("_DefaultRESTQueryAndPayloadModel", {}, {})

\* class GetTodoListQueryParamsModel(BaseModel): widgetId: str
GetTodoListQueryParamsModel == ModelClass("GetTodoListQueryParamsModel", {"widgetId"}, {})

\* class AddTodoItemDataPayloadModel(BaseModel): content: str
AddTodoItemDataPayloadModel == ModelClass("AddTodoItemDataPayloadModel", {"content"}, {})

\* An instance of a model class, None, or a plain dict.
Instance(cls, fields) == [cls |-> cls, fields |-> fields]

NoneInst == Instance("None", {})

DictInst(d) == Instance("dict", d)

\* M(**d): pydantic checks the required fields, ignores the keys that are
\* no field of M and gives an absent optional field the value None
Conforms(M, d) == M.required \subseteq Keys(d)

Construct(M, d) ==
    Instance(M.name,
             {kv \in d : kv[1] \in M.required \cup M.optional}
                 \cup {<<f, NoneValue>> : f \in M.optional \ Keys(d)})

\* instance.model_dump(exclude_none=True)
ModelDump(inst) == {kv \in inst.fields : kv[2] # NoneValue}

\* The type of one of the slots query / json / data in an input model:
\* the annotation, whether None is allowed, and the default.
TypedSlot(M) == [model |-> M, optional |-> FALSE, default |-> NoneInst]

GenericSlot == [model |-> DefaultModel, optional |-> TRUE, default |-> Instance(DefaultModel.name, {})]

\* RESTTool.build_input_model(tool_name, query_params_model,
\*                            json_payload_model, data_payload_model)
BuildInputModel(tool_name, query_params_model, json_payload_model, data_payload_model) ==
    [name |-> tool_name,
     query |-> IF query_params_model # NoModel THEN TypedSlot(query_params_model) ELSE GenericSlot,
     json |-> IF json_payload_model # NoModel THEN TypedSlot(json_payload_model) ELSE GenericSlot,
     data |-> IF data_payload_model # NoModel THEN TypedSlot(data_payload_model) ELSE GenericSlot]

\* RESTTool.__init__(name, query_params_model, data_payload_model,
\* json_payload_model): build_input_model is called with the positional
\* arguments (name, query_params_model, data_payload_model, json_payload_model)
NewRESTTool(name, query_params_model, data_payload_model, json_payload_model) ==
    [name |-> name,
     query_params_model |-> query_params_model,
     data_payload_model |-> data_payload_model,
     json_payload_model |-> json_payload_model,
     input_model |-> BuildInputModel(name, query_params_model,
                                     data_payload_model, json_payload_model)]

\* the tools of the examples: a generic one, GetTodoListRESTTool,
\* AddTodoItemRESTTool, and one typed by a JSON body
RestTools ==
    {NewRESTTool("crud.rest", NoModel, NoModel, NoModel),
     NewRESTTool("get_todo_list", GetTodoListQueryParamsModel, NoModel, NoModel),
     NewRESTTool("add_todo_item", NoModel, AddTodoItemDataPayloadModel, NoModel),
     NewRESTTool("put_todo_item", NoModel, NoModel, AddTodoItemDataPayloadModel)}

\* ---- validation of the invocation arguments (self._input_model(**context.input))

\* a str field without default: path, method
StrFieldError(raw) ==
    IF raw.t = "absent" THEN "missing" ELSE IF raw.t # "str" THEN "string_type" ELSE ""

\* a str field that would take any value and default to the empty string
StrFieldLenient(raw) == ""

\* field `path`
PathFieldError(raw) == StrFieldError(raw)

\* field `method`
MethodFieldError(raw) == StrFieldError(raw)

\* base_url: Optional[str] = None
BaseUrlFieldError(raw) == IF raw.t \in {"absent", "none", "str"} THEN "" ELSE "string_type"

\* headers: Dict[str, str] = {}
HeadersFieldError(raw) == IF raw.t \in {"absent", "dict"} THEN "" ELSE "dict_type"

SlotFieldError(slot, raw) ==
    CASE raw.t = "absent" -> ""
      [] raw.t = "none" -> IF slot.optional THEN "" ELSE "model_type"
      [] raw.t = "dict" -> IF Conforms(slot.model, raw.d) THEN "" ELSE "missing"
      [] OTHER -> "model_type"

SlotValue(slot, raw) ==
    CASE raw.t = "absent" -> slot.default
      [] raw.t = "none" -> NoneInst
      [] OTHER -> Construct(slot.model, raw.d)

\* the fields that fail, each with the kind of its error
ValidationErrors(model, input) ==
    {e \in {<<"path", PathFieldError(input.path)>>,
            <<"method", MethodFieldError(input.method)>>,
            <<"query", SlotFieldError(model.query, input.query)>>,
            <<"json", SlotFieldError(model.json, input.json)>>,
            <<"data", SlotFieldError(model.data, input.data)>>,
            <<"headers", HeadersFieldError(input.headers)>>,
            <<"base_url", BaseUrlFieldError(input.base_url)>>} : e[2] # ""}

\* the instance of the input model, for arguments that validate
ParsedInput(model, input) ==
    [path |-> input.path.s,
     method |-> input.method.s,
     query |-> SlotValue(model.query, input.query),
     json |-> SlotValue(model.json, input.json),
     data |-> SlotValue(model.data, input.data),
     headers |-> input.headers.d,
     base_url |-> IF input.base_url.t = "str" THEN input.base_url ELSE RawNone]

\* ---- the steps of run between validation and the request

\* bool(x)
Truthy(raw) ==
    CASE raw.t = "str" -> raw.s # <<>>
      [] raw.t = "dict" -> raw.d # {}
      [] raw.t = "int" -> TRUE
      [] OTHER -> FALSE

\* the per-call value only as a fallback (the operands of `or` swapped)
MetadataBaseUrlFirst(per_call, from_metadata) ==
    IF Truthy(from_metadata) THEN from_metadata ELSE per_call

\* parsed_input.base_url or context.metadata.get("base_url")
EffectiveBaseUrl(per_call, from_metadata) ==
    IF Truthy(per_call) THEN per_call ELSE from_metadata

RECURSIVE RStrip(_)
RStrip(s) == IF s # <<>> /\ s[Len(s)] = "/" THEN RStrip(SubSeq(s, 1, Len(s) - 1)) ELSE s

RECURSIVE LStrip(_)
LStrip(s) == IF s # <<>> /\ s[1] = "/" THEN LStrip(Tail(s)) ELSE s

\* ---- urllib.parse.urljoin.  A URL is a sequence of tokens: "/" is the
\* separator, a token that ends with a colon ("http:") is a scheme with its
\* colon, every other token is a run of characters without a slash.

SchemeTokens == {"http:", "todos:"}

\* the schemes urljoin resolves a relative reference against
UsesRelative == {"", "http:"}

\* urlparse: scheme, netloc and path of a URL
SchemeOf(u) == IF u # <<>> /\ u[1] \in SchemeTokens THEN u[1] ELSE ""

AfterScheme(u) == IF SchemeOf(u) # "" THEN Tail(u) ELSE u

HasNetloc(r) == Len(r) >= 2 /\ r[1] = "/" /\ r[2] = "/"

NetlocOf(u) ==
    LET r == AfterScheme(u)
    IN  IF HasNetloc(r) /\ Len(r) >= 3 /\ r[3] # "/" THEN r[3] ELSE ""

PathOf(u) ==
    LET r == AfterScheme(u)
    IN  IF ~HasNetloc(r) THEN r
        ELSE SubSeq(r, (IF NetlocOf(u) # "" THEN 4 ELSE 3), Len(r))

\* path.split('/')
RECURSIVE SplitPath(_)
SplitPath(s) ==
    IF s = <<>> THEN <<"">>
    ELSE IF s[1] = "/" THEN <<"">> \o SplitPath(Tail(s))
    ELSE IF Len(s) = 1 THEN <<s[1]>>
    ELSE <<s[1]>> \o SplitPath(SubSeq(s, 3, Len(s)))

\* '/'.join(segments)
RECURSIVE JoinPath(_)
JoinPath(segs) ==
    IF segs = <<>> THEN <<>>
    ELSE LET head == IF segs[1] = "" THEN <<>> ELSE <<segs[1]>>
         IN  IF Len(segs) = 1 THEN head ELSE head \o <<"/">> \o JoinPath(Tail(segs))

\* segments[1:-1] = filter(None, segments[1:-1])
FilterMiddle(segs) ==
    IF Len(segs) < 2 THEN segs
    ELSE <<segs[1]>> \o SelectSeq(SubSeq(segs, 2, Len(segs) - 1), LAMBDA x : x # "")
             \o <<segs[Len(segs)]>>

\* the loop that removes the dot segments
RECURSIVE ResolveDots(_, _)
ResolveDots(segs, resolved) ==
    IF segs = <<>> THEN resolved
    ELSE IF segs[1] = ".."
    THEN ResolveDots(Tail(segs),
                     IF resolved = <<>> THEN <<>> ELSE SubSeq(resolved, 1, Len(resolved) - 1))
    ELSE IF segs[1] = "." THEN ResolveDots(Tail(segs), resolved)
    ELSE ResolveDots(Tail(segs), Append(resolved, segs[1]))

\* urlunparse, for a scheme that takes a network location
Unparse(scheme, netloc, path) ==
    LET rooted == IF path # <<>> /\ path[1] # "/" THEN <<"/">> \o path ELSE path
        rest == IF netloc # "" \/ scheme # ""
                THEN <<"/", "/">> \o (IF netloc # "" THEN <<netloc>> ELSE <<>>) \o rooted
                ELSE path
    IN  (IF scheme # "" THEN <<scheme>> ELSE <<>>) \o rest

\* urljoin(base, url)
PyUrlJoin(base, url) ==
    IF base = <<>> THEN url
    ELSE IF url = <<>> THEN base
    ELSE LET bscheme == SchemeOf(base)
             bnetloc == NetlocOf(base)
             bpath == PathOf(base)
             scheme == IF SchemeOf(url) # "" THEN SchemeOf(url) ELSE bscheme
             netloc == NetlocOf(url)
             path == PathOf(url)
             split == SplitPath(bpath)
             base_parts == IF split[Len(split)] # ""
                           THEN SubSeq(split, 1, Len(split) - 1) ELSE split
             segments == IF path # <<>> /\ path[1] = "/" THEN SplitPath(path)
                         ELSE FilterMiddle(base_parts \o SplitPath(path))
             dotted == ResolveDots(segments, <<>>)
             resolved_path == IF segments[Len(segments)] \in {".", ".."}
                              THEN Append(dotted, "") ELSE dotted
             joined == JoinPath(resolved_path)
         IN  IF scheme # bscheme \/ scheme \notin UsesRelative THEN url
             ELSE IF netloc # "" THEN Unparse(scheme, netloc, path)
             ELSE IF path = <<>> THEN Unparse(scheme, bnetloc, bpath)
             ELSE Unparse(scheme, bnetloc, IF joined = <<>> THEN <<"/">> ELSE joined)

\* the two strings put end to end
UrlConcat(base_url, path) == base_url \o path

\* urljoin(base_url.rstrip("/") + "/", path.lstrip("/"))
UrlJoin(base_url, path) == PyUrlJoin(RStrip(base_url) \o <<"/">>, LStrip(path))

UpperChar(c) ==
    CASE c = "g" -> "G" [] c = "e" -> "E" [] c = "t" -> "T"
      [] c = "p" -> "P" [] c = "o" -> "O" [] c = "s" -> "S" [] OTHER -> c

\* str.upper()
Upper(s) == [i \in 1..Len(s) |-> UpperChar(s[i])]

\* {**b, **a}: the first map wins on a key of both
MergeDictsFirstWins(a, b) == a \cup {kv \in b : kv[1] \notin Keys(a)}

\* {**a, **b}
MergeDicts(a, b) == {kv \in a : kv[1] \notin Keys(b)} \cup b

\* what f"{cls.name}" gives inside a classmethod: `name` is a property of
\* the class, and the class attribute is the property object itself
PropertyRepr == "<property object>"

\* RESTTool.serialize_params_for_request(payload, payload_model), a
\* classmethod.  Gives the mapping, or the parts of the exception raised.
SerializeParams(payload, payload_model) ==
    CASE payload = NoneInst ->
            [exc |-> "", value |-> {}, tool |-> "", what |-> ""]
      [] payload # NoneInst /\ payload_model = NoModel /\ payload.cls # "dict" ->
            [exc |-> "", value |-> ModelDump(payload), tool |-> "", what |-> ""]
      [] payload # NoneInst /\ payload_model = NoModel /\ payload.cls = "dict" ->
            [exc |-> "AttributeError", value |-> {}, tool |-> "", what |-> "model_dump"]
      [] payload # NoneInst /\ payload_model # NoModel /\ payload.cls = payload_model.name ->
            [exc |-> "", value |-> ModelDump(payload), tool |-> "", what |-> ""]
      [] payload # NoneInst /\ payload_model # NoModel /\ payload.cls = "dict" ->
            IF Conforms(payload_model, payload.fields)
            THEN [exc |-> "", value |-> ModelDump(Construct(payload_model, payload.fields)),
                  tool |-> "", what |-> ""]
            ELSE [exc |-> "ToolExecutionError", value |-> {}, tool |-> PropertyRepr,
                  what |-> "invalid query parameters"]
      [] OTHER ->
            [exc |-> "ToolExecutionError", value |-> {}, tool |-> PropertyRepr,
             what |-> "query parameters must be a dict or an instance"]

\* ---- what run returns or raises

JsonNull == [t |-> "null", n |-> 0, s |-> "", d |-> {}]

JsonInt(n) == [t |-> "int", n |-> n, s |-> "", d |-> {}]

JsonStr(s) == [t |-> "str", n |-> 0, s |-> s, d |-> {}]

JsonDict(d) == [t |-> "dict", n |-> 0, s |-> "", d |-> d]

NoOutcome ==
    [kind |-> "none", stage |-> "", tool |-> "", what |-> "", cause |-> {},
     status |-> 0, body |-> JsonNull, raw_response |-> JsonNull]

\* an exception: its class, and the parts of its message (the text before
\* the first colon, the fixed words, the cause, the status and the body)
Raised(kind, stage, tool, what, cause, status, body) ==
    [kind |-> kind, stage |-> stage, tool |-> tool, what |-> what, cause |-> cause,
     status |-> status, body |-> body, raw_response |-> JsonNull]

\* ToolResult(tool_name=..., output=..., raw_response=...)
ToolResult(tool_name, output, raw_response) ==
    [kind |-> "ToolResult", stage |-> "", tool |-> tool_name, what |-> "", cause |-> {},
     status |-> 0, body |-> output, raw_response |-> raw_response]

NoRequest ==
    [method |-> <<>>, url |-> <<>>, params |-> {}, json |-> {}, data |-> {},
     headers |-> {}, timeout |-> 0]

\* run from its first line to the call of client.request: the exception it
\* raises on the way, or the request it hands to the transport
Prepare(tool, context) ==
    LET errors == ValidationErrors(tool.input_model, context.input)
        parsed_input == ParsedInput(tool.input_model, context.input)
        base_url == EffectiveBaseUrl(parsed_input.base_url, context.metadata.base_url)
        default_headers == context.metadata.default_headers
        query_params == SerializeParams(parsed_input.query, tool.query_params_model)
        json_payload == SerializeParams(parsed_input.json, tool.json_payload_model)
        data_payload == SerializeParams(parsed_input.data, tool.data_payload_model)
        failed == IF query_params.exc # "" THEN query_params
                  ELSE IF json_payload.exc # "" THEN json_payload ELSE data_payload
    IN  IF errors # {}
        THEN [out |-> Raised("ToolExecutionError", "validate", tool.name, "invalid input",
                             errors, 0, JsonNull),
              request |-> NoRequest]
        ELSE IF ~Truthy(base_url)
        THEN [out |-> Raised("ToolExecutionError", "base_url", tool.name, "missing base_url",
                             {}, 0, JsonNull),
              request |-> NoRequest]
        ELSE IF failed.exc # ""
        THEN [out |-> Raised(failed.exc, "serialize", failed.tool, failed.what, {}, 0, JsonNull),
              request |-> NoRequest]
        ELSE [out |-> NoOutcome,
              request |-> [method |-> Upper(parsed_input.method),
                           url |-> UrlJoin(base_url.s, parsed_input.path),
                           params |-> query_params.value,
                           json |-> json_payload.value,
                           data |-> data_payload.value,
                           headers |-> MergeDicts(default_headers.d, parsed_input.headers),
                           timeout |-> context.timeout_seconds]]

\* ---- the response

JsonDoc == "{\"id\": \"1\"}"

\* response.json(): the parsed document, or a failure
ParseJson(text) ==
    IF text = JsonDoc
    THEN [ok |-> TRUE, value |-> JsonDict({<<"id", "1">>})]
    ELSE [ok |-> FALSE, value |-> JsonNull]

JsonContentType == <<"application/json", "; charset=utf-8">>

TextContentType == <<"text/plain">>

\* "application/json" in content_type (the content type as its parts)
IndicatesJson(content_type) == \E i \in 1..Len(content_type) : content_type[i] = "application/json"

\* the body never parsed
ParseBodyTextOnly(response) == JsonStr(response.text)

\* lines 117-124: the body as JSON when the content type says so and the
\* text parses, otherwise the text
ParseBody(response) ==
    IF IndicatesJson(response.content_type) /\ ParseJson(response.text).ok
    THEN ParseJson(response.text).value
    ELSE JsonStr(response.text)

\* every status outside 2xx counted as an error
IsErrorNon2xx(status) == ~(200 <= status /\ status <= 299)

\* only a 5xx status counted as an error
IsErrorServerOnly(status) == 500 <= status /\ status <= 599

\* httpx.Response.is_error: a 4xx or 5xx status
IsError(status) == 400 <= status /\ status <= 599

\* raw_response={"status_code": response.status_code}
RawResponse(status) == JsonDict({<<"status_code", status>>})

\* lines 117-135: run after client.request has given a response
Finish(tool, response) ==
    IF IsError(response.status)
    THEN Raised("ToolExecutionError", "status", tool.name, "backend returned", {},
                response.status, ParseBody(response))
    ELSE ToolResult(tool.name, ParseBody(response), RawResponse(response.status))

\* a retry: the request is handed to the transport once more
RequestsAfterFailureRetried(calls) == calls \o calls

\* lines 114-115: the except clause raises; nothing is sent again
RequestsAfterFailure(calls) == calls

\* ---- the inputs

RawPaths == {RawAbsent, RawInt, RawStr(<<"/", "p">>), RawStr(<<"p">>)}

RawMethods == {RawAbsent, RawStr(<<"g", "e", "t">>)}

RawBaseUrls == {RawAbsent, RawStr(<<>>), RawStr(<<"h", "/">>)}

RawHeaders == {RawAbsent, RawDict({<<"a", "2">>, <<"b", "3">>})}

RawQueries == {RawAbsent, RawDict({<<"widgetId", "1">>})}

RawPayloads == {RawAbsent, RawNone, RawDict({<<"content", "c">>})}

RawInputs ==
    [path : RawPaths, method : RawMethods, query : RawQueries, json : RawPayloads,
     data : RawPayloads, headers : RawHeaders, base_url : RawBaseUrls]

Metadatas ==
    [base_url : {RawAbsent, RawStr(<<"g">>)},
     default_headers : {RawAbsent, RawDict({<<"a", "1">>})}]

RestContexts == [input : RawInputs, timeout_seconds : {30}, metadata : Metadatas]

Statuses == {101, 200, 302, 404, 500}

Responses ==
    [status : Statuses,
     content_type : {JsonContentType},
     text : {JsonDoc, "oops"}]
    \cup [status : Statuses, content_type : {TextContentType}, text : {JsonDoc}]

NoResponse == [status |-> 0, content_type |-> <<>>, text |-> ""]

TransportErrors == {"ConnectError", "ReadTimeout"}

NoTool == NewRESTTool("", NoModel, NoModel, NoModel)

NoRestCtx ==
    [input |-> [path |-> RawAbsent, method |-> RawAbsent, query |-> RawAbsent,
                json |-> RawAbsent, data |-> RawAbsent, headers |-> RawAbsent,
                base_url |-> RawAbsent],
     timeout_seconds |-> 0,
     metadata |-> [base_url |-> RawAbsent, default_headers |-> RawAbsent]]

InitRest ==
    /\ restPc = "idle"
    /\ restTool = NoTool
    /\ restCtx = NoRestCtx
    /\ restCalls = <<>>
    /\ restResp = NoResponse
    /\ restOut = NoOutcome

\* await tool.run(context), up to the await of client.request
RunStart ==
    /\ restPc = "idle"
    /\ \E tool \in RestTools, context \in RestContexts :
          LET p == Prepare(tool, context)
          IN  /\ restTool' = tool
              /\ restCtx' = context
              /\ restOut' = p.out
              /\ IF p.out.kind = "none"
                 THEN restCalls' = <<p.request>> /\ restPc' = "awaiting"
                 ELSE restCalls' = <<>> /\ restPc' = "done"
    /\ UNCHANGED <<restResp, otherThanRest>>

\* client.request gives a response
RunRespond ==
    /\ restPc = "awaiting"
    /\ \E response \in Responses :
          /\ restResp' = response
          /\ restOut' = Finish(restTool, response)
    /\ restPc' = "done"
    /\ UNCHANGED <<restTool, restCtx, restCalls, otherThanRest>>

\* client.request raises (connection error, timeout)
RunTransportFail ==
    /\ restPc = "awaiting"
    /\ \E e \in TransportErrors :
          restOut' = Raised("ToolExecutionError", "transport", restTool.name, "HTTP error",
                            {<<"transport", e>>}, 0, JsonNull)
    /\ restCalls' = RequestsAfterFailure(restCalls)
    /\ restPc' = "done"
    /\ UNCHANGED <<restTool, restCtx, restResp, otherThanRest>>

\* the caller has the result or the exception; the tool keeps nothing
RunReturn ==
    /\ restPc = "done"
    /\ restPc' = "idle"
    /\ restTool' = NoTool
    /\ restCtx' = NoRestCtx
    /\ restCalls' = <<>>
    /\ restResp' = NoResponse
    /\ restOut' = NoOutcome
    /\ UNCHANGED otherThanRest

NextRest == RunStart \/ RunRespond \/ RunTransportFail \/ RunReturn

----------------------------------------------------------------------------
(***************************************************************************)
(* The URL join of RESTTool.run on its own: the base URL and the path are  *)
(* drawn with every number of trailing and leading slashes up to           *)
(* MaxSlashes.                                                             *)
(***************************************************************************)

\* the most slashes at the end of a base URL and at the start of a path
MaxSlashes == 2

Slashes(n) == [i \in 1..n |-> "/"]

\* base URLs without their trailing slashes: http://h, http://h/a, h
BaseBodies ==
    {<<"http:", "/", "/", "h">>, <<"http:", "/", "/", "h", "/", "a">>, <<"h">>}

\* paths without their leading slashes: p, p/q, todos:search, ../p, and the
\* empty path
PathBodies ==
    {<<"p">>, <<"p", "/", "q">>, <<"todos:", "search">>, <<"..", "/", "p">>, <<>>}

NoUrlIn == [called |-> FALSE, base_url |-> <<>>, path |-> <<>>]

InitUrl ==
    /\ urlIn = NoUrlIn
    /\ urlOut = <<>>

\* url = urljoin(base_url.rstrip("/") + "/", parsed_input.path.lstrip("/"))
JoinUrl ==
    /\ ~urlIn.called
    /\ \E b \in BaseBodies, p \in PathBodies, k \in 0..MaxSlashes, j \in 0..MaxSlashes :
          LET base_url == b \o Slashes(k)
              path == Slashes(j) \o p
          IN  /\ urlIn' = [called |-> TRUE, base_url |-> base_url, path |-> path]
              /\ urlOut' = UrlJoin(base_url, path)
    /\ UNCHANGED otherThanUrl

\* the URL has been handed to the request; the next run builds its own
UrlDone ==
    /\ urlIn.called
    /\ urlIn' = NoUrlIn
    /\ urlOut' = <<>>
    /\ UNCHANGED otherThanUrl

NextUrl == JoinUrl \/ UrlDone

----------------------------------------------------------------------------
(***************************************************************************)
(* The callable that ClaudeBaseAgent._wrap_tool_for_claude builds around a *)
(* tool.  A Python value is a tagged record: None, an integer, a string, a *)
(* dict (its items in insertion order), an object that json can only       *)
(* encode through default=str, and a dict with a tuple as a key, which     *)
(* json.dumps refuses with TypeError.                                      *)
(***************************************************************************)

PyNone == [t |-> "none", n |-> 0, s |-> "", items |-> <<>>]

PyInt(n) == [t |-> "int", n |-> n, s |-> "", items |-> <<>>]

PyStr(s) == [t |-> "str", n |-> 0, s |-> s, items |-> <<>>]

PyDict(items) == [t |-> "dict", n |-> 0, s |-> "", items |-> items]

\* an object with str(obj) = s, such as a date
PyObj(s) == [t |-> "object", n |-> 0, s |-> s, items |-> <<>>]

\* the dict {(1, 2): 3}
PyTupleKeyDict == [t |-> "tuple_key_dict", n |-> 0, s |-> "{(1, 2): 3}", items |-> <<>>]

\* repr(value), which is str(value) for everything but a string
RECURSIVE PyRepr(_)
RECURSIVE PyReprItems(_)
PyReprItems(items) ==
    IF items = <<>> THEN ""
    ELSE "'" \o items[1][1] \o "': " \o PyRepr(items[1][2])
         \o (IF Len(items) = 1 THEN "" ELSE ", " \o PyReprItems(Tail(items)))

PyRepr(v) ==
    CASE v.t = "none" -> "None"
      [] v.t = "int" -> ToString(v.n)
      [] v.t = "str" -> "'" \o v.s \o "'"
      [] v.t = "dict" -> "{" \o PyReprItems(v.items) \o "}"
      [] OTHER -> v.s

\* str(value)
PyStrOf(v) == IF v.t = "str" THEN v.s ELSE PyRepr(v)

\* whether json.dumps(value, default=str) returns (it raises TypeError on a
\* key that is no str, int, float, bool or None)
RECURSIVE JsonEncodable(_)
JsonEncodable(v) ==
    CASE v.t = "tuple_key_dict" -> FALSE
      [] v.t = "dict" -> \A i \in 1..Len(v.items) : JsonEncodable(v.items[i][2])
      [] OTHER -> TRUE

\* json.dumps(value, default=str) with the default separators ", " and ": "
RECURSIVE JsonDumps(_)
RECURSIVE JsonDumpsItems(_)
JsonDumpsItems(items) ==
    IF items = <<>> THEN ""
    ELSE "\"" \o items[1][1] \o "\": " \o JsonDumps(items[1][2])
         \o (IF Len(items) = 1 THEN "" ELSE ", " \o JsonDumpsItems(Tail(items)))

JsonDumps(v) ==
    CASE v.t = "none" -> "null"
      [] v.t = "int" -> ToString(v.n)
      [] v.t = "str" -> "\"" \o v.s \o "\""
      [] v.t = "dict" -> "{" \o JsonDumpsItems(v.items) \o "}"
      [] v.t = "object" -> "\"" \o PyStrOf(v) \o "\""
      [] OTHER -> "TypeError"

\* the text always taken from json.dumps, a string output included
EnvelopeTextAlwaysJson(output) == JsonDumps(output)

\* _invoke: the text of the envelope for result.output
EnvelopeText(output) ==
    IF output.t = "str" THEN output.s
    ELSE IF JsonEncodable(output) THEN JsonDumps(output)
    ELSE PyStrOf(output)

\* {"content": [{"type": "text", "text": text}]}
Envelope(text) ==
    [kind |-> "envelope", content |-> <<[type |-> "text", text |-> text]>>, exc |-> ""]

\* an exception that leaves the callable
Propagated(exc) == [kind |-> "raised", content |-> <<>>, exc |-> exc]

NoEnvelope == [kind |-> "none", content |-> <<>>, exc |-> ""]

\* the tools behind the callable: one that returns its input unchanged, and
\* two whose run gives any output or raises
WrapTools ==
    {[name |-> "echo", kind |-> "echo"],
     [name |-> "crud.rest", kind |-> "rest"],
     [name |-> "todo.list", kind |-> "rest"]}

NoWrapTool == [name |-> "", kind |-> ""]

\* the raw argument mappings the runtime sends
WrapArgs ==
    {<<>>,
     <<<<"x", PyInt(1)>>>>,
     <<<<"x", PyInt(1)>>, <<"y", PyStr("a")>>>>,
     <<<<"q", PyNone>>>>,
     <<<<"path", PyStr("/todos")>>>>}

\* the outputs a tool's ToolResult can hold
ToolOutputs ==
    {PyStr("ok"), PyStr(""), PyNone, PyInt(7), PyDict(<<>>),
     PyDict(<<<<"id", PyInt(1)>>, <<"title", PyStr("t")>>>>),
     PyDict(<<<<"item", PyDict(<<<<"id", PyInt(1)>>>>)>>>>),
     PyObj("2024-01-01"), PyTupleKeyDict}

\* the exceptions a tool's run can raise
ToolFailures == {"ToolExecutionError", "RuntimeError"}

\* the context every wrapped callable derives its own from
PredefinedContext ==
    [input |-> <<>>, timeout_seconds |-> BaseCtx.timeout_seconds,
     metadata |-> <<<<"base_url", PyStr("http://h")>>>>]

NoWrapCtx == [input |-> <<>>, timeout_seconds |-> 0, metadata |-> <<>>]

\* predefined_tool_context.with_input(args), by value
ContextWithInput(base, args) == [base EXCEPT !.input = args]

\* the outputs tool.run can return on a context
RunOutputs(tool, context) ==
    IF tool.kind = "echo" THEN {PyDict(context.input)} ELSE ToolOutputs

InitWrap ==
    /\ wrapPc = "idle"
    /\ wrapTool = NoWrapTool
    /\ wrapArgs = <<>>
    /\ wrapCtx = NoWrapCtx
    /\ wrapResult = PyNone
    /\ wrapOut = NoEnvelope

\* _invoke(args) up to the await of tool.run
WrapCall ==
    /\ wrapPc = "idle"
    /\ \E tool \in WrapTools, args \in WrapArgs :
          /\ wrapTool' = tool
          /\ wrapArgs' = args
          /\ wrapCtx' = ContextWithInput(PredefinedContext, args)
    /\ wrapPc' = "running"
    /\ UNCHANGED <<wrapResult, wrapOut, otherThanWrap>>

\* tool.run returns a ToolResult; _invoke turns its output into the envelope
WrapToolReturns ==
    /\ wrapPc = "running"
    /\ \E output \in RunOutputs(wrapTool, wrapCtx) :
          /\ wrapResult' = output
          /\ wrapOut' = Envelope(EnvelopeText(output))
    /\ wrapPc' = "done"
    /\ UNCHANGED <<wrapTool, wrapArgs, wrapCtx, otherThanWrap>>

\* tool.run raises; _invoke has no handler around the await
WrapToolRaises ==
    /\ wrapPc = "running"
    /\ wrapTool.kind = "rest"
    /\ \E exc \in ToolFailures : wrapOut' = Propagated(exc)
    /\ wrapPc' = "done"
    /\ UNCHANGED <<wrapTool, wrapArgs, wrapCtx, wrapResult, otherThanWrap>>

\* the runtime has the envelope or the exception
WrapReturn ==
    /\ wrapPc = "done"
    /\ wrapPc' = "idle"
    /\ wrapTool' = NoWrapTool
    /\ wrapArgs' = <<>>
    /\ wrapCtx' = NoWrapCtx
    /\ wrapResult' = PyNone
    /\ wrapOut' = NoEnvelope
    /\ UNCHANGED otherThanWrap

NextWrap == WrapCall \/ WrapToolReturns \/ WrapToolRaises \/ WrapReturn

----------------------------------------------------------------------------
(***************************************************************************)
(* ClaudeBaseAgent._build_input_schema and _resolve_schema_refs.  A JSON   *)
(* schema is a tree of tagged records: a string (its text split at the     *)
(* slashes), a dict (its items in order) and a list (its elements, each    *)
(* paired with the empty key).                                             *)
(***************************************************************************)

\* the depth at which the interpreter stops a recursion with RecursionError
MaxDepth == 12

SStr(tokens) == [t |-> "str", s |-> tokens, items |-> <<>>]

SDict(items) == [t |-> "dict", s |-> <<>>, items |-> items]

SList(nodes) == [t |-> "list", s |-> <<>>, items |-> [i \in 1..Len(nodes) |-> <<"", nodes[i]>>]]

\* what a call raises when the recursion is deeper than the interpreter allows
RecursionError == [t |-> "RecursionError", s |-> <<>>, items |-> <<>>]

NoSchema == [t |-> "none", s |-> <<>>, items |-> <<>>]

\* key in d
HasKey(d, k) == \E i \in 1..Len(d.items) : d.items[i][1] = k

\* d[key]
GetKey(d, k) == d.items[CHOOSE i \in 1..Len(d.items) : d.items[i][1] = k][2]

\* {"$ref": "#/$defs/<name>"}
RefTo(name) == SDict(<<<<"$ref", SStr(<<"#", "$defs", name>>)>>>>)

\* {"$ref": "#/$defs/<name>", "description": "..."}: a reference with a
\* sibling key, as pydantic writes a model-typed field that has a description
DescribedRefTo(name) ==
    SDict(<<<<"$ref", SStr(<<"#", "$defs", name>>)>>, <<"description", SStr(<<"validated">>)>>>>)

\* ref_path.startswith('#/$defs/')
StartsWithDefs(ref_path) ==
    ref_path.t = "str" /\ Len(ref_path.s) >= 3 /\ ref_path.s[1] = "#" /\ ref_path.s[2] = "$defs"

\* ref_path.split('/')[-1]
DefName(ref_path) == ref_path.s[Len(ref_path.s)]

\* a reference that is left as it is
RefsKept(schema, defs, depth) == schema

\* cls._resolve_schema_refs(schema, defs), called at the given depth of the
\* recursion
RECURSIVE ResolveSchemaRefs(_, _, _)
ResolveSchemaRefs(schema, defs, depth) ==
    IF depth > MaxDepth THEN RecursionError
    ELSE IF schema.t = "dict" /\ HasKey(schema, "$ref")
    THEN LET ref_path == GetKey(schema, "$ref")
         IN  IF StartsWithDefs(ref_path) /\ HasKey(defs, DefName(ref_path))
             THEN ResolveSchemaRefs(GetKey(defs, DefName(ref_path)), defs, depth + 1)
             ELSE schema
    ELSE IF schema.t \in {"dict", "list"}
    THEN LET items == [i \in 1..Len(schema.items) |->
                          <<schema.items[i][1],
                            ResolveSchemaRefs(schema.items[i][2], defs, depth + 1)>>]
         IN  IF \E i \in 1..Len(items) : items[i][2] = RecursionError
             THEN RecursionError
             ELSE [schema EXCEPT !.items = items]
    ELSE schema

\* del json_schema['$defs']
WithoutDefs(schema) == SDict(SelectSeq(schema.items, LAMBDA kv : kv[1] # "$defs"))

\* the schema of a tool without input model
EmptyObjectSchema ==
    SDict(<<<<"type", SStr(<<"object">>)>>, <<"properties", SDict(<<>>)>>>>)

\* cls._build_input_schema(tool), for the JSON schema of the tool's input
\* model (NoSchema for a tool without one)
BuildInputSchema(json_schema) ==
    IF json_schema = NoSchema THEN EmptyObjectSchema
    ELSE LET defs == IF HasKey(json_schema, "$defs") THEN GetKey(json_schema, "$defs")
                     ELSE SDict(<<>>)
             resolved == ResolveSchemaRefs(json_schema, defs, 1)
         IN  IF resolved = RecursionError THEN RecursionError ELSE WithoutDefs(resolved)

\* ---- the schemas pydantic gives for the input models

ObjectType == <<"type", SStr(<<"object">>)>>

NullSchema == SDict(<<<<"type", SStr(<<"null">>)>>>>)

\* a model with one string field
ItemDef ==
    SDict(<<<<"properties", SDict(<<<<"content", SDict(<<<<"type", SStr(<<"string">>)>>>>)>>>>)>>,
            ObjectType>>)

\* a model that uses Item twice: in a field and in a list
PageDef ==
    SDict(<<<<"properties",
              SDict(<<<<"first", RefTo("Item")>>,
                      <<"rest", SDict(<<<<"items", RefTo("Item")>>,
                                        <<"type", SStr(<<"array">>)>>>>)>>>>)>>,
            ObjectType>>)

\* a model with an optional field of its own type
NodeDef ==
    SDict(<<<<"properties",
              SDict(<<<<"child", SDict(<<<<"anyOf", SList(<<RefTo("Node"), NullSchema>>)>>>>)>>>>)>>,
            ObjectType>>)

\* two models that use each other
PingDef == SDict(<<<<"properties", SDict(<<<<"pong", RefTo("Pong")>>>>)>>, ObjectType>>)

PongDef == SDict(<<<<"properties", SDict(<<<<"ping", RefTo("Ping")>>>>)>>, ObjectType>>)

AllDefs ==
    <<<<"Item", ItemDef>>, <<"Node", NodeDef>>, <<"Page", PageDef>>,
      <<"Ping", PingDef>>, <<"Pong", PongDef>>>>

\* the ways a field of the input model can be typed: inline, by a model, by
\* an optional model, and the definitions each one brings into $defs
FieldSchemas ==
    {[schema |-> SDict(<<ObjectType>>), uses |-> {}],
     [schema |-> RefTo("Item"), uses |-> {"Item"}],
     [schema |-> SDict(<<<<"anyOf", SList(<<RefTo("Item"), NullSchema>>)>>>>), uses |-> {"Item"}],
     [schema |-> DescribedRefTo("Item"), uses |-> {"Item"}],
     [schema |-> RefTo("Page"), uses |-> {"Page", "Item"}],
     [schema |-> RefTo("Node"), uses |-> {"Node"}],
     [schema |-> RefTo("Ping"), uses |-> {"Ping", "Pong"}]}

\* model.model_json_schema() for an input model whose fields query, json and
\* data are typed in the given ways
ModelJsonSchema(query, json, data) ==
    LET used == query.uses \cup json.uses \cup data.uses
        defs == SelectSeq(AllDefs, LAMBDA kv : kv[1] \in used)
        properties == SDict(<<<<"query", query.schema>>, <<"json", json.schema>>,
                              <<"data", data.schema>>>>)
    IN  SDict((IF defs = <<>> THEN <<>> ELSE <<<<"$defs", SDict(defs)>>>>)
              \o <<<<"properties", properties>>, ObjectType>>)

NoSchemaIn == [called |-> FALSE, json_schema |-> NoSchema]

InitSchema ==
    /\ schIn = NoSchemaIn
    /\ schOut = NoSchema

\* _build_input_schema(tool) for a tool with an input model
BuildSchema ==
    /\ ~schIn.called
    /\ \E query \in FieldSchemas, json \in FieldSchemas, data \in FieldSchemas :
          LET json_schema == ModelJsonSchema(query, json, data)
          IN  /\ schIn' = [called |-> TRUE, json_schema |-> json_schema]
              /\ schOut' = BuildInputSchema(json_schema)
    /\ UNCHANGED otherThanSchema

\* _build_input_schema(tool) for a tool without input model
BuildSchemaNoModel ==
    /\ ~schIn.called
    /\ schIn' = [called |-> TRUE, json_schema |-> NoSchema]
    /\ schOut' = BuildInputSchema(NoSchema)
    /\ UNCHANGED otherThanSchema

\* the schema has been handed to the tool decorator
SchemaDone ==
    /\ schIn.called
    /\ schIn' = NoSchemaIn
    /\ schOut' = NoSchema
    /\ UNCHANGED otherThanSchema

NextSchema == BuildSchema \/ BuildSchemaNoModel \/ SchemaDone

----------------------------------------------------------------------------
(***************************************************************************)
(* ClaudeBaseAgent.run.  The runtime yields messages; a message is an      *)
(* object with a content list, an object with a text attribute, a str, a   *)
(* dict, or any other object.  A content block has a text, or a type.      *)
(***************************************************************************)

\* the most messages the runtime yields in one turn
MaxReceived == 2

TextBlock(text) == [type |-> "text", text |-> text, id |-> "", name |-> "", input |-> <<>>]

ToolUseBlock(id, name, input) ==
    [type |-> "tool_use", text |-> "", id |-> id, name |-> name, input |-> input]

\* a block with neither a text nor the type tool_use
ThinkingBlock == [type |-> "thinking", text |-> "", id |-> "", name |-> "", input |-> <<>>]

\* hasattr(content_block, "text")
HasText(block) == block.type = "text"

\* an object with a content attribute
ContentMessage(blocks) == [k |-> "content", content |-> blocks, text |-> "", items |-> <<>>]

\* an object with a text attribute and no content attribute
TextMessage(text) == [k |-> "text", content |-> <<>>, text |-> text, items |-> <<>>]

\* a str
StrMessage(text) == [k |-> "str", content |-> <<>>, text |-> text, items |-> <<>>]

\* a dict
DictMessage(items) == [k |-> "dict", content |-> <<>>, text |-> "", items |-> items]

\* an object with none of these, such as the result record that ends a turn;
\* text is its str()
OtherMessage(str) == [k |-> "other", content |-> <<>>, text |-> str, items |-> <<>>]

\* response = None, before the first message
NoMessage == [k |-> "None", content |-> <<>>, text |-> "None", items |-> <<>>]

\* str(response)
StrOfMessage(m) ==
    CASE m.k = "dict" -> PyRepr(PyDict(m.items))
      [] m.k = "content" -> "<message>"
      [] OTHER -> m.text

\* the loop over response.content: the text of the blocks that have one
RECURSIVE BlocksText(_)
BlocksText(blocks) ==
    IF blocks = <<>> THEN ""
    ELSE (IF HasText(blocks[1]) THEN blocks[1].text ELSE "") \o BlocksText(Tail(blocks))

ToolCall(id, name, input) == [id |-> id, name |-> name, input |-> input]

AgentStep(tool_calls) == [thought |-> PyNone, tool_calls |-> tool_calls, final_response |-> PyNone]

\* the loop over response.content: one AgentStep for each block without
\* text whose type is tool_use
RECURSIVE BlocksSteps(_)
BlocksSteps(blocks) ==
    IF blocks = <<>> THEN <<>>
    ELSE (IF ~HasText(blocks[1]) /\ blocks[1].type = "tool_use"
          THEN <<AgentStep(<<ToolCall(blocks[1].id, blocks[1].name, blocks[1].input)>>)>>
          ELSE <<>>) \o BlocksSteps(Tail(blocks))

\* final_text as run computes it from response
FinalText(response) ==
    CASE response.k = "content" -> BlocksText(response.content)
      [] response.k = "text" -> response.text
      [] response.k = "str" -> response.text
      [] response.k = "dict" ->
            IF \E i \in 1..Len(response.items) : response.items[i][1] = "text"
            THEN response.items[CHOOSE i \in 1..Len(response.items) :
                                    response.items[i][1] = "text"][2].s
            ELSE IF \E i \in 1..Len(response.items) : response.items[i][1] = "content"
            THEN response.items[CHOOSE i \in 1..Len(response.items) :
                                    response.items[i][1] = "content"][2].s
            ELSE StrOfMessage(response)
      [] OTHER -> StrOfMessage(response)

Message(role, content) == [role |-> role, content |-> content]

AssistantResponse(messages, steps, tool_results, final_text) ==
    [kind |-> "AssistantResponse", messages |-> messages, steps |-> steps,
     tool_results |-> tool_results, final_text |-> final_text]

NoAssistantResponse ==
    [kind |-> "none", messages |-> <<>>, steps |-> <<>>, tool_results |-> <<>>,
     final_text |-> PyNone]

\* run from the end of the stream to its return
Reduce(response) ==
    LET final_text == FinalText(response)
        steps == IF response.k = "content" THEN BlocksSteps(response.content) ELSE <<>>
        assistant_messages == IF final_text # "" THEN <<Message("assistant", final_text)>>
                              ELSE <<>>
    IN  AssistantResponse(assistant_messages, steps, <<>>,
                          IF final_text # "" THEN PyStr(final_text) ELSE PyNone)

\* ---- the turn

\* the conversations given to run
Conversations ==
    {<<>>,
     <<Message("user", "hi")>>,
     <<Message("user", "hi"), Message("assistant", "hello")>>,
     <<Message("system", "s"), Message("user", "q"), Message("tool", "r")>>}

\* the messages with role user or assistant
ClaudeMessages(messages) == SelectSeq(messages, LAMBDA m : m.role \in {"user", "assistant"})

\* prompt = claude_messages[-1]["content"] if claude_messages else ""
Prompt(messages) ==
    LET claude_messages == ClaudeMessages(messages)
    IN  IF claude_messages # <<>> THEN claude_messages[Len(claude_messages)].content ELSE ""

\* the messages the runtime can yield
RuntimeMessages ==
    {ContentMessage(<<TextBlock("a")>>),
     ContentMessage(<<TextBlock("a"), ToolUseBlock("t1", "crud.rest", <<<<"path", PyStr("/todos")>>>>),
                      TextBlock("b")>>),
     ContentMessage(<<ToolUseBlock("t2", "todo.list", <<>>)>>),
     ContentMessage(<<ThinkingBlock>>),
     TextMessage("c"),
     StrMessage("d"),
     DictMessage(<<<<"text", PyStr("e")>>>>),
     OtherMessage("ResultMessage(subtype='success')")}

InitAgent ==
    /\ agPc = "idle"
    /\ agMessages = <<>>
    /\ agPrompt = ""
    /\ agReceived = <<>>
    /\ agResponse = NoMessage
    /\ agOut = NoAssistantResponse

\* run(messages) up to the loop over client.receive_response()
AgentQuery ==
    /\ agPc = "idle"
    /\ \E messages \in Conversations :
          /\ agMessages' = messages
          /\ agPrompt' = Prompt(messages)
    /\ agResponse' = NoMessage
    /\ agPc' = "receiving"
    /\ UNCHANGED <<agReceived, agOut, otherThanAgent>>

\* the runtime yields a message: response = message
AgentReceive ==
    /\ agPc = "receiving"
    /\ Len(agReceived) < MaxReceived
    /\ \E message \in RuntimeMessages :
          /\ agReceived' = Append(agReceived, message)
          /\ agResponse' = message
    /\ UNCHANGED <<agPc, agMessages, agPrompt, agOut, otherThanAgent>>

\* the stream ends; run reduces response and returns
AgentFinish ==
    /\ agPc = "receiving"
    /\ agOut' = Reduce(agResponse)
    /\ agPc' = "done"
    /\ UNCHANGED <<agMessages, agPrompt, agReceived, agResponse, otherThanAgent>>

\* the caller has the AssistantResponse
AgentReturn ==
    /\ agPc = "done"
    /\ agPc' = "idle"
    /\ agMessages' = <<>>
    /\ agPrompt' = ""
    /\ agReceived' = <<>>
    /\ agResponse' = NoMessage
    /\ agOut' = NoAssistantResponse
    /\ UNCHANGED otherThanAgent

NextAgent == AgentQuery \/ AgentReceive \/ AgentFinish \/ AgentReturn

----------------------------------------------------------------------------
(***************************************************************************)
(* SimpleEchoAgent.run.  The content of a message is a sequence of tokens: *)
(* " " is one space, "tool:" and "TOOL:" are the five characters of the    *)
(* prefix, every other token is a run of characters without a space.       *)
(* Tokens that follow each other without a " " between them are adjacent   *)
(* in the string.                                                          *)
(***************************************************************************)

\* a list, as json.loads gives for "[1]"
PyList(items) == [t |-> "list", n |-> 0, s |-> "", items |-> items]

\* str.strip(), one side at a time
RECURSIVE LStripSpaces(_)
LStripSpaces(tokens) ==
    IF tokens # <<>> /\ tokens[1] = " " THEN LStripSpaces(Tail(tokens)) ELSE tokens

RECURSIVE RStripSpaces(_)
RStripSpaces(tokens) ==
    IF tokens # <<>> /\ tokens[Len(tokens)] = " "
    THEN RStripSpaces(SubSeq(tokens, 1, Len(tokens) - 1)) ELSE tokens

StripSpaces(tokens) == RStripSpaces(LStripSpaces(tokens))

\* str.lower()
LowerToken(token) == IF token = "TOOL:" THEN "tool:" ELSE token

\* content.lower().startswith("tool:")
StartsWithToolPrefix(content) == content # <<>> /\ LowerToken(content[1]) = "tool:"

\* the characters of the tokens, end to end
RECURSIVE Concat(_)
Concat(tokens) == IF tokens = <<>> THEN "" ELSE tokens[1] \o Concat(Tail(tokens))

\* rest.split(" ", 1): the parts before and after the first space, or fewer
\* than two parts when there is no space
SplitAtFirstSpace(rest) ==
    IF \E i \in 1..Len(rest) : rest[i] = " "
    THEN LET i == CHOOSE i \in 1..Len(rest) :
                     rest[i] = " " /\ \A j \in 1..(i - 1) : rest[j] # " "
         IN  <<SubSeq(rest, 1, i - 1), SubSeq(rest, i + 1, Len(rest))>>
    ELSE <<rest>>

JSONDecodeError == [t |-> "JSONDecodeError", n |-> 0, s |-> "", items |-> <<>>]

\* json.loads(text): white space around the document is skipped
JsonLoads(json_part) ==
    LET text == Concat(StripSpaces(json_part))
    IN  CASE text = "{}" -> PyDict(<<>>)
          [] text = "{\"x\": 1}" -> PyDict(<<<<"x", PyInt(1)>>>>)
          [] text = "[1]" -> PyList(<<<<"", PyInt(1)>>>>)
          [] text = "1" -> PyInt(1)
          [] OTHER -> JSONDecodeError

\* str(uuid.uuid4())
CallId == "uuid4"

\* AgentStep(thought="Calling a tool as requested.", tool_calls=[tool_call])
ToolCallStep(tool_call) ==
    [thought |-> PyStr("Calling a tool as requested."), tool_calls |-> <<tool_call>>,
     final_response |-> PyNone]

\* SimpleEchoAgent.tool_registry: a new registry with the default CRUD suite
RECURSIVE RegisterEach(_, _)
RegisterEach(reg, names) ==
    IF names = <<>> THEN reg
    ELSE RegisterEach(DictStore(reg, names[1], [id |-> 1, name |-> names[1], isTool |-> TRUE]),
                      Tail(names))

DefaultCrudSuite ==
    RegisterEach(<<>>, <<"crud.rest", "todo.list", "todo.get", "todo.create",
                         "todo.update", "todo.delete">>)

\* the last message with role user, or None
LastUser(messages) ==
    LET users == SelectSeq(messages, LAMBDA m : m.role = "user")
    IN  IF users = <<>> THEN Message("none", <<>>) ELSE users[Len(users)]

NoEchoCall == [name |-> "", payload |-> PyNone, call_id |-> ""]

\* the except clause of run: the response that holds the error text
FailedResponse(e) ==
    AssistantResponse(<<Message("assistant", "Failed to parse or execute tool call: " \o e)>>,
                      <<>>, <<>>, PyNone)

\* tool_results entry: the ToolResult with its tool_call_id set
CalledToolResult(tool_name, output, call_id) ==
    [tool_name |-> tool_name, output |-> output, raw_response |-> PyNone,
     tool_call_id |-> call_id]

\* run from its first line to its return or to the await of tool.run:
\* the response (kind "none" while a tool has to run) and the parsed call
EchoStart(messages) ==
    LET last_user == LastUser(messages)
        content == StripSpaces(last_user.content)
        rest == StripSpaces(Tail(content))
        parts == SplitAtFirstSpace(rest)
        name == Concat(parts[1])
        payload == JsonLoads(parts[2])
        call == [name |-> name, payload |-> payload, call_id |-> CallId]
        steps == <<ToolCallStep(ToolCall(CallId, name, payload))>>
        tool == DictGet(DefaultCrudSuite, name)
    IN  IF last_user.role = "none"
        THEN [out |-> AssistantResponse(<<Message("assistant", "How can I help you today?")>>,
                                        <<>>, <<>>, PyNone),
              call |-> NoEchoCall]
        ELSE IF ~StartsWithToolPrefix(content)
        THEN [out |-> AssistantResponse(<<Message("assistant", "You said: " \o Concat(content))>>,
                                        <<>>, <<>>, PyStr("You said: " \o Concat(content))),
              call |-> NoEchoCall]
        ELSE IF Len(parts) < 2
        THEN [out |-> FailedResponse("ValueError"), call |-> NoEchoCall]
        ELSE IF payload = JSONDecodeError
        THEN [out |-> FailedResponse("JSONDecodeError"), call |-> NoEchoCall]
        ELSE IF payload.t # "dict"
        THEN [out |-> FailedResponse("ValidationError"), call |-> NoEchoCall]
        ELSE IF tool = None
        THEN [out |-> AssistantResponse(<<Message("assistant", "Unknown tool: " \o name)>>,
                                        steps, <<>>, PyStr("Unknown tool: " \o name)),
              call |-> call]
        ELSE [out |-> NoAssistantResponse, call |-> call]

\* ---- the conversations

ToolPrefixes == {<<"tool:">>, <<"TOOL:">>}

\* the tool names a user writes: two of the registry, one that is not in
\* it, and none at all
WrittenNames == {<<"crud.rest">>, <<"todo.get">>, <<"nosuch">>, <<>>}

\* the JSON documents a user writes: {}, {"x": 1}, [1], a broken one, none
WrittenJson == {<<"{}">>, <<"{\"x\":", " ", "1}">>, <<"[1]">>, <<"{oops">>, <<>>}

ToolRequests ==
    {prefix \o gap \o name \o between \o json :
        prefix \in ToolPrefixes, gap \in {<<>>, <<" ">>}, name \in WrittenNames,
        between \in {<<" ">>, <<" ", " ">>}, json \in WrittenJson}

EchoContents == ToolRequests \cup {<<"hello">>, <<" ", "hello", " ", "there", " ">>}

EchoConversations ==
    {<<>>, <<Message("assistant", <<"hello">>)>>}
        \cup {<<Message("user", content)>> : content \in EchoContents}
        \cup {<<Message("user", <<"tool:", " ", "nosuch", " ", "{}">>),
                Message("assistant", <<"hello">>)>>,
              <<Message("user", <<"tool:", " ", "nosuch", " ", "{}">>),
                Message("user", <<"hello">>)>>}

\* the outputs the tool of a call can give
EchoToolOutputs == {PyStr("ok"), PyDict(<<<<"id", PyInt(1)>>>>)}

InitEcho ==
    /\ echoPc = "idle"
    /\ echoMessages = <<>>
    /\ echoCall = NoEchoCall
    /\ echoRuns = <<>>
    /\ echoOut = NoAssistantResponse

\* run(messages) up to its return, or to the await of tool.run
EchoRun ==
    /\ echoPc = "idle"
    /\ \E messages \in EchoConversations :
          LET start == EchoStart(messages)
          IN  /\ echoMessages' = messages
              /\ echoCall' = start.call
              /\ echoOut' = start.out
              /\ IF start.out.kind = "none"
                 THEN echoPc' = "running" /\ echoRuns' = Append(echoRuns, start.call.name)
                 ELSE echoPc' = "done" /\ echoRuns' = echoRuns
    /\ UNCHANGED otherThanEcho

\* tool.run returns: the result is recorded and reported
EchoToolReturns ==
    /\ echoPc = "running"
    /\ \E output \in EchoToolOutputs :
          LET final_text == "Tool " \o echoCall.name \o " result: " \o PyStrOf(output)
          IN  echoOut' = AssistantResponse(
                             <<Message("assistant", final_text)>>,
                             <<ToolCallStep(ToolCall(echoCall.call_id, echoCall.name,
                                                     echoCall.payload))>>,
                             <<CalledToolResult(echoCall.name, output, echoCall.call_id)>>,
                             PyStr(final_text))
    /\ echoPc' = "done"
    /\ UNCHANGED <<echoMessages, echoCall, echoRuns, otherThanEcho>>

\* tool.run raises: the except clause of run reports it
EchoToolRaises ==
    /\ echoPc = "running"
    /\ \E e \in ToolFailures : echoOut' = FailedResponse(e)
    /\ echoPc' = "done"
    /\ UNCHANGED <<echoMessages, echoCall, echoRuns, otherThanEcho>>

\* the caller has the AssistantResponse
EchoReturn ==
    /\ echoPc = "done"
    /\ echoPc' = "idle"
    /\ echoMessages' = <<>>
    /\ echoCall' = NoEchoCall
    /\ echoRuns' = <<>>
    /\ echoOut' = NoAssistantResponse
    /\ UNCHANGED otherThanEcho

NextEcho == EchoRun \/ EchoToolReturns \/ EchoToolRaises \/ EchoReturn

----------------------------------------------------------------------------
(***************************************************************************)
(* The calculator tools (examples/calculator_claude_agent.py).  Python     *)
(* integers have no width, so the arithmetic is that of Integers.          *)
(***************************************************************************)

\* the operands given to the tools lie in -MaxOperand..MaxOperand
MaxOperand == 3

Operands == (0 - MaxOperand)..MaxOperand

\* ToolMetadata.name of AdditionTool, MultiplicationTool, InsanityTool
CalculatorTools == {"addition", "multiplication", "insanity"}

\* input[key]: the value, or KeyError
HasItem(input, key) == \E kv \in input : kv[1] = key

Item(input, key) == (CHOOSE kv \in input : kv[1] = key)[2]

\* class ToolResult(BaseModel): tool_name: str; output: Any;
\* raw_response: Any = None; tool_call_id: Optional[str] = None
ToolResultRequired == {"tool_name", "output"}

NoCalcOut ==
    [kind |-> "none", tool_name |-> "", output |-> 0, missing |-> {}, key |-> ""]

\* ToolResult(**kwargs): pydantic raises ValidationError when a field
\* without default is not among the keywords, and ignores a keyword that is
\* no field of the model
NewToolResult(kwargs) ==
    IF ToolResultRequired \subseteq Keys(kwargs)
    THEN [kind |-> "ToolResult", tool_name |-> Item(kwargs, "tool_name"),
          output |-> Item(kwargs, "output"), missing |-> {}, key |-> ""]
    ELSE [kind |-> "ValidationError", tool_name |-> "", output |-> 0,
          missing |-> ToolResultRequired \ Keys(kwargs), key |-> ""]

KeyError(key) ==
    [kind |-> "KeyError", tool_name |-> "", output |-> 0, missing |-> {}, key |-> key]

\* the keys that run reads from context.input
OperandKeys(tool) == IF tool = "insanity" THEN <<"x">> ELSE <<"a", "b">>

\* result = input["a"] + input["b"] | input["a"] * input["b"] | input["x"] * 28 + 11
Formula(tool, input) ==
    CASE tool = "addition" -> Item(input, "a") + Item(input, "b")
      [] tool = "multiplication" -> Item(input, "a") * Item(input, "b")
      [] tool = "insanity" -> Item(input, "x") * 28 + 11

\* AdditionTool.run, MultiplicationTool.run, InsanityTool.run
CalculatorRun(tool, input) ==
    LET keys == OperandKeys(tool)
        absent == SelectSeq(keys, LAMBDA k : ~HasItem(input, k))
    IN  IF absent # <<>> THEN KeyError(absent[1])
        ELSE NewToolResult({<<"name", tool>>, <<"output", Formula(tool, input)>>})

\* context.input: the operands of the tool, or a dict that lacks the last
\* of them
CalculatorInputs(tool) ==
    IF tool = "insanity"
    THEN {{<<"x", x>>} : x \in Operands} \cup {{}}
    ELSE {{<<"a", a>>, <<"b", b>>} : a \in Operands, b \in Operands}
             \cup {{<<"a", a>>} : a \in Operands}

InitCalc ==
    /\ calcPc = "idle"
    /\ calcTool = ""
    /\ calcInput = {}
    /\ calcOut = NoCalcOut

\* await tool.run(context)
CalcRun ==
    /\ calcPc = "idle"
    /\ \E tool \in CalculatorTools :
          \E input \in CalculatorInputs(tool) :
              /\ calcTool' = tool
              /\ calcInput' = input
              /\ calcOut' = CalculatorRun(tool, input)
    /\ calcPc' = "done"
    /\ UNCHANGED otherThanCalc

\* the caller has the ToolResult, or the exception
CalcReturn ==
    /\ calcPc = "done"
    /\ calcPc' = "idle"
    /\ calcTool' = ""
    /\ calcInput' = {}
    /\ calcOut' = NoCalcOut
    /\ UNCHANGED otherThanCalc

NextCalc == CalcRun \/ CalcReturn

----------------------------------------------------------------------------
(***************************************************************************)
(* Specifications                                                          *)
(***************************************************************************)

vars == <<regVars, ctxVars, restVars, urlVars, wrapVars, schemaVars, agentVars, echoVars, calcVars>>

Init == InitRegistry /\ InitContext /\ InitRest /\ InitUrl /\ InitWrap /\ InitSchema /\ InitAgent /\ InitEcho /\ InitCalc

SpecRegistry == Init /\ [][NextRegistry]_vars

SpecContext == Init /\ [][NextContext]_vars

SpecInvoke == Init /\ [][NextInvoke]_vars

SpecRest == Init /\ [][NextRest]_vars

SpecUrl == Init /\ [][NextUrl]_vars

SpecWrap == Init /\ [][NextWrap]_vars

SpecSchema == Init /\ [][NextSchema]_vars

SpecAgent == Init /\ [][NextAgent]_vars

SpecEcho == Init /\ [][NextEcho]_vars

SpecCalc == Init /\ [][NextCalc]_vars

----------------------------------------------------------------------------
(***************************************************************************)
(* Properties of ToolRegistry                                              *)
(***************************************************************************)

\* C1: after any sequence of register and get calls, a register of a Tool
\* whose name is present raised AssertionError and left the registry as it
\* was; a register of a Tool whose name is not present raised nothing and
\* get(name) now gives that very tool; get of a name that no register call
\* stored gave None and raised nothing; and every tool a register call
\* stored is still what get gives for its name.
RegistryContract ==
    /\ (regCall.op = "register" /\ regCall.arg.isTool /\ Contains(regPre, regCall.name))
          => (regCall.raised = "AssertionError" /\ tools = regPre)
    /\ (regCall.op = "register" /\ regCall.arg.isTool /\ ~Contains(regPre, regCall.name))
          => (regCall.raised = "" /\ DictGet(tools, regCall.name) = regCall.arg)
    /\ (regCall.op = "get" /\ ~\E t \in registered : t.name = regCall.name)
          => (regCall.raised = "" /\ regCall.result = None)
    /\ \A t \in registered : DictGet(tools, t.name) = t

\* C1 witness: two names are registered and the last call, a register of
\* another Tool instance under one of these names, has failed
RegistryDuplicateRefused ==
    /\ Len(tools) = 2
    /\ regCall.op = "register"
    /\ regCall.arg.isTool
    /\ regCall.raised = "AssertionError"
    /\ DictGet(tools, regCall.name) # regCall.arg

----------------------------------------------------------------------------
(***************************************************************************)
(* Properties of ToolContext.with_input                                    *)
(***************************************************************************)

\* the dicts nested in the input of context j are shared with the base context
InputSharedWithBase(j) ==
    (ReachFrom(heap, {ctxs[j].input}) \ {ctxs[j].input})
        \cap ReachFrom(heap, {ctxs[0].input, ctxs[0].metadata}) # {}

\* what a with_input call must give: a context of new dicts whose input has
\* the payload's value, whose timeout and metadata have the receiver's, and
\* a receiver that is as it was
WithInputPost(j, p) ==
    /\ ctxs'[j].live
    /\ ~heap[ctxs'[j].input].alloc
    /\ \A a \in ReachFrom(heap', {ctxs'[j].metadata}) : ~heap[a].alloc
    /\ Deep(heap', ctxs'[j].input) = Deep(heap, p)
    /\ ctxs'[j].timeout_seconds = ctxs[0].timeout_seconds
    /\ Deep(heap', ctxs'[j].metadata) = Deep(heap, ctxs[0].metadata)
    /\ ctxs'[0] = ctxs[0]
    /\ CtxValue(heap', ctxs'[0]) = CtxValue(heap, ctxs[0])

----------------------------------------------------------------------------
(***************************************************************************)
(* Properties of concurrent wrapped-tool invocations                       *)
(***************************************************************************)

\* C3: in every interleaving of the invocations that share the predefined
\* context, what a tool reads as context.input is the arguments of its own
\* invocation, the predefined context keeps its input, timeout and metadata,
\* and the context of each invocation differs from what with_input gave it
\* only by the stores of its own tool.
InvokeIsolation ==
    /\ CtxValue(heap, ctxs[0]) = BaseValue
    /\ lastRead.ctx # 0 => lastRead.input = Deep([a \in {1} |-> Obj(inv[lastRead.ctx].args)], 1)
    /\ \A i \in 1..MaxInv :
          inv[i].pc # "idle" =>
             /\ CtxValue(heap, ctxs[i]) = inv[i].expect
             /\ inv[i].expect.timeout_seconds = BaseValue.timeout_seconds

\* C3 witness: two invocations with different arguments are running, the
\* tool of the first has stored into its nested metadata, and the tool of
\* the second has read its input after that
InterleavedInvocations ==
    /\ inv[1].pc = "running"
    /\ inv[2].pc = "running"
    /\ inv[1].args # inv[2].args
    /\ inv[1].expect.metadata = PutNestedValue(BaseValue.metadata, "default_headers")
    /\ inv[2].expect.metadata = BaseValue.metadata
    /\ lastRead.ctx = 2

----------------------------------------------------------------------------
(***************************************************************************)
(* Properties of RESTTool.run                                              *)
(***************************************************************************)

\* a run is over and the transport gave it a response
Responded == restPc = "done" /\ restResp # NoResponse

\* a base URL is present: a non-empty string
Present(raw) == raw.t = "str" /\ raw.s # <<>>

\* the body of the response as run must report it
ExpectedBody ==
    IF restResp.content_type = JsonContentType /\ restResp.text = JsonDoc
    THEN JsonDict({<<"id", "1">>})
    ELSE JsonStr(restResp.text)

\* C4: when the arguments lack path or method, or give one of them a value
\* that is no string, run raises ToolExecutionError whose message starts
\* with the tool's name, says "invalid input" and names the failing field,
\* and no request was handed to the transport.
InvalidInputRejected ==
    (restPc # "idle" /\ (restCtx.input.path.t # "str" \/ restCtx.input.method.t # "str"))
        => /\ restPc = "done"
           /\ restOut.kind = "ToolExecutionError"
           /\ restOut.tool = restTool.name
           /\ restOut.what = "invalid input"
           /\ restCtx.input.path.t = "absent" => <<"path", "missing">> \in restOut.cause
           /\ restCtx.input.path.t = "int" => <<"path", "string_type">> \in restOut.cause
           /\ restCtx.input.method.t = "absent" => <<"method", "missing">> \in restOut.cause
           /\ restCalls = <<>>
           /\ restResp = NoResponse

\* C4 witness: a run whose arguments lack the path although a base URL is
\* at hand has ended in the invalid-input error
MissingPathRejected ==
    /\ restPc = "done"
    /\ restCtx.input.path.t = "absent"
    /\ restCtx.input.method.t = "str"
    /\ Present(restCtx.metadata.base_url)
    /\ restOut.what = "invalid input"
    /\ restCalls = <<>>

\* C5: for arguments that validate, the URL requested is built on the
\* per-call base_url when one is present and on the metadata's otherwise;
\* when neither is present run raises ToolExecutionError "missing base_url"
\* naming the tool and no request was handed to the transport.
BaseUrlResolution ==
    (restPc # "idle" /\ restOut.stage # "validate") =>
        /\ restOut.what = "missing base_url"
              <=> (~Present(restCtx.input.base_url) /\ ~Present(restCtx.metadata.base_url))
        /\ restOut.what = "missing base_url"
              => /\ restPc = "done"
                 /\ restOut.kind = "ToolExecutionError"
                 /\ restOut.tool = restTool.name
                 /\ restCalls = <<>>
        /\ (restCalls # <<>> /\ Present(restCtx.input.base_url))
              => restCalls[1].url = UrlJoin(restCtx.input.base_url.s, restCtx.input.path.s)
        /\ (restCalls # <<>> /\ ~Present(restCtx.input.base_url))
              => restCalls[1].url = UrlJoin(restCtx.metadata.base_url.s, restCtx.input.path.s)

\* C5 witness: valid arguments without base_url on a context without
\* base_url have ended in the missing-base_url error
MissingBaseUrlRejected ==
    /\ restPc = "done"
    /\ restCtx.input.path.t = "str"
    /\ restCtx.input.base_url.t = "absent"
    /\ restCtx.metadata.base_url.t = "absent"
    /\ restOut.what = "missing base_url"
    /\ restCalls = <<>>

\* C6: a run hands at most one request to the transport: exactly one once
\* validation, base-URL resolution and serialization are behind it (also
\* after a transport failure or an error status), none when it failed
\* before.
AtMostOneRequest ==
    /\ Len(restCalls) <= 1
    /\ restPc = "awaiting" => Len(restCalls) = 1
    /\ (restPc = "done" /\ restOut.stage \in {"", "transport", "status"})
          => Len(restCalls) = 1
    /\ (restPc = "done" /\ restOut.stage \in {"validate", "base_url", "serialize"})
          => Len(restCalls) = 0

\* C6 witness: a run has ended in a transport failure with one request made
TransportFailedOnce ==
    /\ restPc = "done"
    /\ restOut.stage = "transport"
    /\ Len(restCalls) = 1

\* C7: every run that ends without a ToolResult has raised
\* ToolExecutionError with a message that starts with the tool's name.
EveryFailureNamesTool ==
    (restPc = "done" /\ restOut.kind # "ToolResult")
        => (restOut.kind = "ToolExecutionError" /\ restOut.tool = restTool.name)

\* C8: on a response with a 4xx or 5xx status run raises ToolExecutionError
\* whose message holds the status code and the parsed body, and gives no
\* ToolResult.
ErrorStatusRaises ==
    (Responded /\ restResp.status >= 400 /\ restResp.status <= 599)
        => /\ restOut.kind = "ToolExecutionError"
           /\ restOut.tool = restTool.name
           /\ restOut.what = "backend returned"
           /\ restOut.status = restResp.status
           /\ restOut.body = ExpectedBody
           /\ restOut.raw_response = JsonNull

\* C8 witness: a 404 response with a JSON body has ended the run
NotFoundRaised ==
    /\ Responded
    /\ restResp.status = 404
    /\ restResp.text = JsonDoc
    /\ restOut.status = 404
    /\ restOut.body = JsonDict({<<"id", "1">>})

\* C9 as stated: every response whose status is not 2xx makes run fail with
\* an error that holds the status and the body.
NonSuccessStatusFails ==
    (Responded /\ ~(restResp.status >= 200 /\ restResp.status <= 299))
        => /\ restOut.kind = "ToolExecutionError"
           /\ restOut.status = restResp.status
           /\ restOut.body = ExpectedBody

\* C9 as amended: among the responses whose status is not 2xx, those with a
\* 4xx or 5xx status make run fail with an error that holds the status and
\* the body, and those with a 1xx or 3xx status make run return a
\* ToolResult that holds the body and the status.
NonSuccessStatusOutcome ==
    (Responded /\ ~(restResp.status >= 200 /\ restResp.status <= 299))
        => IF restResp.status >= 400 /\ restResp.status <= 599
           THEN /\ restOut.kind = "ToolExecutionError"
                /\ restOut.status = restResp.status
                /\ restOut.body = ExpectedBody
           ELSE /\ restOut.kind = "ToolResult"
                /\ restOut.body = ExpectedBody
                /\ <<"status_code", restResp.status>> \in restOut.raw_response.d

\* C9 witness: a 302 response has ended the run with a ToolResult
RedirectReturned ==
    /\ Responded
    /\ restResp.status = 302
    /\ restOut.kind = "ToolResult"

SlotFor(supplied) == IF supplied # NoModel THEN supplied ELSE DefaultModel

\* C11: the input model of a tool types each slot the constructor was given
\* a sub-schema for with that sub-schema, and leaves every other slot with
\* the generic empty model.
SlotTypingMatchesSupplied ==
    restTool # NoTool
        => /\ restTool.input_model.query.model = SlotFor(restTool.query_params_model)
           /\ restTool.input_model.json.model = SlotFor(restTool.json_payload_model)
           /\ restTool.input_model.data.model = SlotFor(restTool.data_payload_model)

\* C12: the headers of the request are the default headers of the context
\* metadata overlaid by the per-call headers: the keys are those of either
\* map, and a key of the per-call map has the per-call value.
HeadersOverlay ==
    restCalls # <<>>
        => LET h == restCalls[1].headers
               defaults == restCtx.metadata.default_headers.d
               per_call == restCtx.input.headers.d
           IN  /\ Keys(h) = Keys(defaults) \cup Keys(per_call)
               /\ \A kv \in h :
                     IF kv[1] \in Keys(per_call) THEN kv \in per_call ELSE kv \in defaults
               /\ Cardinality(h) = Cardinality(Keys(h))

\* C12 witness: defaults {a: 1} and per-call headers {a: 2, b: 3} have given
\* a request with the headers {a: 2, b: 3}
HeadersOverlaid ==
    /\ restCalls # <<>>
    /\ restCtx.metadata.default_headers.d = {<<"a", "1">>}
    /\ restCtx.input.headers.d = {<<"a", "2">>, <<"b", "3">>}
    /\ restCalls[1].headers = {<<"a", "2">>, <<"b", "3">>}

(***************************************************************************)
(* The URL join                                                            *)
(***************************************************************************)

\* paths that are a plain relative path: no scheme, no dot segment
PlainPathBodies == {<<"p">>, <<"p", "/", "q">>, <<>>}

EnvelopeHoldsOutput ==
    (wrapPc = "done" /\ wrapOut.kind = "envelope")
        => /\ wrapCtx.input = wrapArgs
           /\ wrapCtx.metadata = PredefinedContext.metadata
           /\ wrapCtx.timeout_seconds = PredefinedContext.timeout_seconds
           /\ Len(wrapOut.content) = 1
           /\ wrapOut.content[1].type = "text"
           /\ wrapTool.kind = "echo" => wrapResult = PyDict(wrapArgs)
           /\ wrapResult.t = "str" => wrapOut.content[1].text = wrapResult.s
           /\ wrapResult.t \in {"none", "int", "dict", "object"}
                 => wrapOut.content[1].text = JsonDumps(wrapResult)
           /\ wrapResult = PyNone => wrapOut.content[1].text = "null"
           /\ wrapResult = PyInt(7) => wrapOut.content[1].text = "7"
           /\ wrapResult = PyObj("2024-01-01") => wrapOut.content[1].text = "\"2024-01-01\""
           /\ wrapResult = PyDict(<<<<"x", PyInt(1)>>, <<"y", PyStr("a")>>>>)
                 => wrapOut.content[1].text = "{\"x\": 1, \"y\": \"a\"}"
           /\ wrapResult = PyDict(<<<<"item", PyDict(<<<<"id", PyInt(1)>>>>)>>>>)
                 => wrapOut.content[1].text = "{\"item\": {\"id\": 1}}"
           /\ wrapResult = PyTupleKeyDict => wrapOut.content[1].text = "{(1, 2): 3}"
           /\ (wrapTool.kind = "echo" /\ wrapArgs = <<<<"x", PyInt(1)>>>>)
                 => wrapOut.content[1].text = "{\"x\": 1}"

\* C14 witness: the echo tool called with {"x": 1} has given the envelope
\* whose text is {"x": 1}
EchoEnvelopeReturned ==
    /\ wrapPc = "done"
    /\ wrapTool.kind = "echo"
    /\ wrapArgs = <<<<"x", PyInt(1)>>>>
    /\ wrapOut = Envelope("{\"x\": 1}")

(***************************************************************************)
(* The schema handed to the runtime                                        *)
(***************************************************************************)

\* whether a "$ref" key occurs anywhere in a schema
RECURSIVE HoldsRef(_)
HoldsRef(schema) ==
    \/ schema.t = "dict" /\ HasKey(schema, "$ref")
    \/ \E i \in 1..Len(schema.items) : HoldsRef(schema.items[i][2])

\* the definition Page with every reference replaced by the definition Item
PageInlined ==
    SDict(<<<<"properties",
              SDict(<<<<"first", ItemDef>>,
                      <<"rest", SDict(<<<<"items", ItemDef>>,
                                        <<"type", SStr(<<"array">>)>>>>)>>>>)>>,
            ObjectType>>)

\* what a field of the input model has to be in the schema handed over
Inlined(field) ==
    CASE field = RefTo("Item") -> ItemDef
      [] field = DescribedRefTo("Item") -> ItemDef
      [] field = RefTo("Page") -> PageInlined
      [] field = SDict(<<<<"anyOf", SList(<<RefTo("Item"), NullSchema>>)>>>>)
            -> SDict(<<<<"anyOf", SList(<<ItemDef, NullSchema>>)>>>>)
      [] OTHER -> field

\* C15: a schema that _build_input_schema returns has no "$defs" key and no
\* "$ref" at any depth, the elements of lists included, and every place
\* that held a reference holds the content of the definition, itself without
\* references.
SchemaRefsInlined ==
    (schIn.called /\ schOut.t = "dict")
        => /\ ~HasKey(schOut, "$defs")
           /\ ~HoldsRef(schOut)
           /\ schIn.json_schema # NoSchema
                 => LET before == GetKey(schIn.json_schema, "properties")
                        after == GetKey(schOut, "properties")
                    IN  /\ Len(after.items) = Len(before.items)
                        /\ \A i \in 1..Len(before.items) :
                              /\ after.items[i][1] = before.items[i][1]
                              /\ after.items[i][2] = Inlined(before.items[i][2])

\* C15 witness: a schema with a reference to a definition that itself holds
\* references, and a reference inside an anyOf list, has been returned with
\* all of them inlined
NestedRefsInlined ==
    /\ schIn.called
    /\ schIn.json_schema # NoSchema
    /\ GetKey(GetKey(schIn.json_schema, "properties"), "query") = RefTo("Page")
    /\ HoldsRef(GetKey(GetKey(schIn.json_schema, "properties"), "json"))
    /\ GetKey(GetKey(schIn.json_schema, "properties"), "json") # RefTo("Page")
    /\ schOut.t = "dict"
    /\ GetKey(GetKey(schOut, "properties"), "query") = PageInlined

\* C16: _resolve_schema_refs returns on every schema, also on one with a
\* definition that refers to itself, directly or through another one.
ResolveReturns ==
    schIn.called => schOut.t = "dict"

(***************************************************************************)
(* The turn of ClaudeBaseAgent.run                                         *)
(***************************************************************************)

\* the blocks of all the messages received, in order
RECURSIVE AllBlocks(_)
AllBlocks(received) ==
    IF received = <<>> THEN <<>> ELSE received[1].content \o AllBlocks(Tail(received))

\* the texts of the text blocks, end to end
RECURSIVE TextsOf(_)
TextsOf(blocks) ==
    IF blocks = <<>> THEN ""
    ELSE (IF blocks[1].type = "text" THEN blocks[1].text ELSE "") \o TextsOf(Tail(blocks))

\* the tool invocations among the blocks
ToolUsesOf(blocks) == SelectSeq(blocks, LAMBDA b : b.type = "tool_use")

\* C17: at the end of a turn in which the runtime has yielded messages with
\* content blocks, final_text is the texts of all the text blocks received,
\* in order, and steps holds one tool-call record (id, name, arguments) for
\* each tool-invocation block received.
TurnReduced ==
    (/\ agPc = "done"
     /\ agReceived # <<>>
     /\ \A i \in 1..Len(agReceived) : agReceived[i].k = "content")
        => LET blocks == AllBlocks(agReceived)
               uses == ToolUsesOf(blocks)
           IN  /\ agOut.kind = "AssistantResponse"
               /\ agOut.final_text = (IF TextsOf(blocks) = "" THEN PyNone
                                      ELSE PyStr(TextsOf(blocks)))
               /\ Len(agOut.steps) = Len(uses)
               /\ \A i \in 1..Len(uses) :
                     agOut.steps[i].tool_calls
                         = <<[id |-> uses[i].id, name |-> uses[i].name, input |-> uses[i].input]>>

\* C18: at the end of a turn in which the runtime has yielded no message, or
\* only messages whose blocks are tool invocations, run has returned an
\* AssistantResponse with final_text None or empty and no assistant message.
NoTextNoFinalText ==
    (/\ agPc = "done"
     /\ \A i \in 1..Len(agReceived) :
           /\ agReceived[i].k = "content"
           /\ \A j \in 1..Len(agReceived[i].content) : agReceived[i].content[j].type = "tool_use")
        => /\ agOut.kind = "AssistantResponse"
           /\ agOut.final_text \in {PyNone, PyStr("")}
           /\ agOut.messages = <<>>

(***************************************************************************)
(* Tool failures at the adapters; unknown tools                            *)
(***************************************************************************)

\* C19: a call of the wrapped callable, or of SimpleEchoAgent.run, in which
\* tool.run fails ends with a returned envelope or response; no exception
\* leaves the adapter.
ToolFailureConverted ==
    /\ wrapPc = "done" => wrapOut.kind = "envelope"
    /\ echoPc = "done" => echoOut.kind = "AssistantResponse"

\* the last user message of the conversation given to SimpleEchoAgent.run
LastUserContent ==
    LET users == SelectSeq(echoMessages, LAMBDA m : m.role = "user")
    IN  IF users = <<>> THEN <<>> ELSE users[Len(users)].content

\* the message is "tool: <name> {json}" with this name and this JSON object
IsToolRequest(content, name, json) ==
    \E prefix \in ToolPrefixes, gap \in {<<>>, <<" ">>}, between \in {<<" ">>, <<" ", " ">>} :
        content = prefix \o gap \o <<name>> \o between \o json

\* C20: SimpleEchoAgent.run on a last user message "tool: <name> {json}"
\* whose name is in no registry entry returns, without running a tool, an
\* AssistantResponse whose final_text and only message are
\* "Unknown tool: <name>", whose steps hold the requested call and whose
\* tool_results are empty.
UnknownToolReported ==
    \A json \in {<<"{}">>, <<"{\"x\":", " ", "1}">>} :
        (echoPc = "done" /\ IsToolRequest(LastUserContent, "nosuch", json))
            => /\ echoOut.kind = "AssistantResponse"
               /\ echoOut.final_text = PyStr("Unknown tool: nosuch")
               /\ echoOut.messages = <<[role |-> "assistant", content |-> "Unknown tool: nosuch"]>>
               /\ Len(echoOut.steps) = 1
               /\ Len(echoOut.steps[1].tool_calls) = 1
               /\ echoOut.steps[1].tool_calls[1].name = "nosuch"
               /\ echoOut.steps[1].tool_calls[1].input
                     = (IF json = <<"{}">> THEN PyDict(<<>>) ELSE PyDict(<<<<"x", PyInt(1)>>>>))
               /\ echoOut.tool_results = <<>>
               /\ echoRuns = <<>>

\* C20 witness: the message  TOOL:nosuch  {"x": 1}  has been answered with
\* "Unknown tool: nosuch"
UnknownToolAnswered ==
    /\ echoPc = "done"
    /\ LastUserContent = <<"TOOL:", "nosuch", " ", " ", "{\"x\":", " ", "1}">>
    /\ echoOut.final_text = PyStr("Unknown tool: nosuch")
    /\ echoRuns = <<>>


----------------------------------------------------------------------------
(***************************************************************************)
(* ToolRegistry.all                                                        *)
(***************************************************************************)

\* C21: a collection that all() returned holds the tools that were
\* registered when it was called, first registered first, and it still holds
\* exactly these after any register performed later.
AllIsSnapshot ==
    /\ (regCall.op = "all" /\ allViews # <<>>)
          => allViews[Len(allViews)].returned = DictValues(regPre)
    /\ \A i \in 1..Len(allViews) :
          ViewElements(allViews[i], tools) = allViews[i].returned


----------------------------------------------------------------------------
(***************************************************************************)
(* The form body of a tool that declares a model for it                    *)
(***************************************************************************)

\* the call is one of add_todo_item with a path, a method, a base URL that
\* resolves and a 'data' mapping that conforms to its model
FormBodyCall ==
    /\ restPc # "idle"
    /\ restTool = NewRESTTool("add_todo_item", NoModel, AddTodoItemDataPayloadModel, NoModel)
    /\ restCtx.input.path.t = "str"
    /\ restCtx.input.method.t = "str"
    /\ Present(restCtx.input.base_url) \/ Present(restCtx.metadata.base_url)
    /\ restCtx.input.data.t = "dict"
    /\ Conforms(AddTodoItemDataPayloadModel, restCtx.input.data.d)
    /\ restCtx.input.query.t = "absent"
    /\ restCtx.input.json.t = "absent"

\* C22: a run of add_todo_item (built with a model for the form body only)
\* on a path, a method, a resolvable base URL and a conforming 'data'
\* mapping raises nothing before the request and hands the transport one
\* request whose form body is the mapping coerced into the model and dumped
\* without its None fields.
FormBodySent ==
    FormBodyCall
        => /\ restOut.stage \notin {"validate", "base_url", "serialize"}
           /\ Len(restCalls) = 1
           /\ restCalls[1].data
                 = ModelDump(Construct(AddTodoItemDataPayloadModel, restCtx.input.data.d))


----------------------------------------------------------------------------
(***************************************************************************)
(* The prompt of a turn                                                    *)
(***************************************************************************)

\* the messages of the conversation whose role is user
UserMessages == SelectSeq(agMessages, LAMBDA m : m.role = "user")

\* C23: the prompt that run has submitted to the runtime is the content of
\* the latest message of the conversation whose role is user, whatever
\* follows that message.
PromptIsLatestUser ==
    (agPc # "idle" /\ UserMessages # <<>>)
        => agPrompt = UserMessages[Len(UserMessages)].content


----------------------------------------------------------------------------
(***************************************************************************)
(* The calculator tools                                                    *)
(***************************************************************************)

\* C24: a calculator tool that ran on an input holding the integers its
\* input model requires has returned a ToolResult that names the tool and
\* whose output is a + b for addition, a * b for multiplication and
\* x * 28 + 11 for insanity.
CalculatorGivesFormula ==
    (calcPc = "done" /\ \A i \in 1..Len(OperandKeys(calcTool)) :
                            HasItem(calcInput, OperandKeys(calcTool)[i]))
        => /\ calcOut.kind = "ToolResult"
           /\ calcOut.tool_name = calcTool
           /\ calcTool = "addition"
                 => calcOut.output = Item(calcInput, "a") + Item(calcInput, "b")
           /\ calcTool = "multiplication"
                 => calcOut.output = Item(calcInput, "a") * Item(calcInput, "b")
           /\ calcTool = "insanity"
                 => calcOut.output = Item(calcInput, "x") * 28 + 11

=============================================================================
